---- MODULE Spec2Model ----
(***************************************************************************)
(* Model of the position-correlation and telemetry-delivery engine:        *)
(*   DrillingDataService  (src/modules/api/drilling_data_service.py)       *)
(*   GNSSLocationService  (src/modules/api/gnss_location_service.py)       *)
(*                                                                         *)
(* Conventions.  Python's None is the number None (-1); every real number  *)
(* of the model is >= 0.  The clock of DrillingDataService counts units of *)
(* 0.5 s (the period of the worker's sleep), so send_interval = 2.0 s is 4 *)
(* units.  Every sample added carries a velocity equal to its ordinal, so  *)
(* two samples are never confused.                                         *)
(***************************************************************************)
EXTENDS Integers, Sequences, FiniteSets, TLC

None == -1

\* Python truthiness of an Optional[int]: None and 0 are falsy.
Falsy(v) == v = None \/ v = 0

(***************************************************************************)
(* Bounds of the model.                                                    *)
(***************************************************************************)
MaxAdds    == 2   \* calls of add_velocity_data
MaxWorkers == 2   \* threads ever created by start()
MaxTicks   == 4   \* steps of 0.5 s the model lets time take
LateTicks  == 1   \* steps of 0.5 s it lets time take after a join of stop() that
                  \* waited its timeout out, when it follows the service that far
MaxPosts   == 2   \* remote submissions DrillingDataService issues

(***************************************************************************)
(* Program constants of DrillingDataService.                               *)
(***************************************************************************)
maxlen        == 1000  \* deque(maxlen=1000)
send_interval == 4     \* 2.0 s, in units of 0.5 s
SleepTicks    == 1     \* time.sleep(0.5)
JoinTimeout   == 10    \* join(timeout=5.0)

HoleIds == {7}
Depths  == {5}
\* What post_drilling_speed can give back: a mapping with success true, a
\* mapping with success false, no result, or an exception.
PostResults == {"ok", "fail", "none", "raise"}

Caller  == 0
Workers == 1..MaxWorkers
Threads == {Caller} \cup Workers

VARIABLES
    hole_id,         \* self.hole_id
    data_queue,      \* self.data_queue, oldest first
    last_send_time,  \* self.last_send_time (the worker's pacing attribute)
    send_thread,     \* self.send_thread: a worker id, or None
    running,         \* self.running
    stats,           \* self.stats
    clock,           \* time.time(), in units of 0.5 s
    horizon,         \* the clock value up to which the model lets time run
    late,            \* by how much a join that waits its timeout out moves it
    wk,              \* wk[w]: position and locals of worker thread w
    fl,              \* fl[t]: position and locals of _send_pending_data in thread t
    c_pc,            \* position of the thread that calls start() and stop()
    join_deadline,   \* when the join of stop() gives up
    added,           \* history: number of samples added so far
    posts,           \* history: the remote submissions issued, in order
    commit_log,      \* history: what the last remote submission gave back
    attempt_log,     \* history: when a worker last entered a flush, or None
    received,        \* history: the remote submissions that have returned, in order
    refused,         \* history: which of start() and stop() returned at once
                     \* since the last thread was created
    stop_log         \* history: bookkeeping of the last stop() call

dds_vars == <<hole_id, data_queue, last_send_time, send_thread, running, stats,
              clock, horizon, late, wk, fl, c_pc, join_deadline, added, posts,
              commit_log, attempt_log, received, refused, stop_log>>

VARIABLES
    api_linked,             \* self.api_client and self.project_id are both set
    max_distance_threshold, \* self.max_distance_threshold, in mm
    holes_cache,            \* self.holes_cache
    holes_cache_timestamp,  \* self.holes_cache_timestamp
    now,                    \* time.time() as GNSSLocationService reads it, in s
    current_velocity_ms,    \* self.current_velocity_ms
    current_depth_m,        \* self.current_depth_m
    gnss_stats,             \* self.stats of GNSSLocationService
    gnss_running,           \* self.running of GNSSLocationService
    mqtt_connected,         \* the subscriber's network loop is running
    g_pc,                   \* position of the thread that calls start() and stop()
    sd,                     \* position and locals of set_drilling_data
    pl,                     \* position and locals of the message callback
    fetches,                \* history: number of get_all_holes calls
    get_log,                \* history: the last _get_holes call
    last_good,              \* history: the last successful fetch
    cleared,                \* history: clear_cache ran and _get_holes has not since
    submits,                \* history: post_drilling_speed calls of the pipeline
    life_log,               \* history: the last start() or stop() call
    msg_log,                \* history: the last inbound message
    find_log,               \* history: the last nearest-hole decision
    set_log                 \* history: the set_drilling_data calls

gnss_vars == <<api_linked, max_distance_threshold, holes_cache,
               holes_cache_timestamp, now, current_velocity_ms, current_depth_m,
               gnss_stats, gnss_running, mqtt_connected, g_pc, sd, pl, fetches,
               get_log, last_good, cleared, submits, life_log, msg_log,
               find_log, set_log>>

VARIABLES
    fn_holes,   \* _find_nearest_hole: the holes argument
    fn_lat,     \* ... the lat argument
    fn_lon,     \* ... the lon argument
    fn_result   \* ... what it returned, once called

fn_vars == <<fn_holes, fn_lat, fn_lon, fn_result>>

VARIABLES
    pm_payload, \* _on_mqtt_message: the payload argument
    pm_result   \* ... what the handler made of it, once called

pm_vars == <<pm_payload, pm_result>>

VARIABLES
    hf_args,    \* hole_finder.find_nearest_hole: its arguments
    hf_result,  \* ... what it returned, once called
    hs_result   \* hole_finder.get_holes_sorted_by_distance, called with the
                \* same arguments: its limit and what it returned

hf_vars == <<hf_args, hf_result, hs_result>>

VARIABLES
    gga_args,   \* _parse_nmea_gpgga: the sentence it is given
    gga_result  \* ... what it returned, once called

gga_vars == <<gga_args, gga_result>>

vars == <<dds_vars, gnss_vars, fn_vars, pm_vars, hf_vars, gga_vars>>

NoSample == [velocity_ms |-> None, depth_m |-> None, timestamp |-> None]

Last(s) == s[Len(s)]

(***************************************************************************)
(* DrillingDataService: the queue.                                         *)
(***************************************************************************)
\* (mutant) an append that never evicts
AppendUnbounded(q, x) == Append(q, x)

\* deque.append on a deque(maxlen=n): a full deque drops its oldest element.
DequeAppend(q, x) ==
    IF Len(q) >= maxlen THEN Append(Tail(q), x) ELSE Append(q, x)

\* (mutant) the oldest sample instead of the latest
OldestOf(q) == q[1]

\* latest_data = self.data_queue[-1]
LatestOf(q) == Last(q)

\* success = result is not None and result.get('success', False)
IsSuccess(r) == r = "ok"

\* lock: the thread is inside a `with self.lock` block; each block of
\* _send_pending_data is entered and left within one step.  result: what the
\* flush ended with, once it has.
NoFlush == [pc |-> "off", latest_data |-> NoSample, lock |-> FALSE,
            result |-> "nothing"]

NewWorker == [pc |-> "unborn", current_time |-> 0]

NoStop == [active |-> FALSE, pending |-> NoSample, in_flight |-> FALSE,
           posts_before |-> 0, added_before |-> 0, worker |-> None]

NoneRefused == [start |-> FALSE, stop |-> FALSE]

\* DrillingDataService.__init__
Constructed ==
    /\ hole_id \in HoleIds \cup {None}
    /\ data_queue = <<>>
    /\ last_send_time = 0
    /\ send_thread = None
    /\ running = FALSE
    /\ stats = [total_sent |-> 0, total_failed |-> 0, last_send_time |-> None]
    /\ clock = send_interval
    /\ wk = [w \in Workers |-> NewWorker]
    /\ fl = [t \in Threads |-> NoFlush]
    /\ c_pc = "idle"
    /\ join_deadline = 0
    /\ added = 0
    /\ posts = <<>>
    /\ commit_log = "nothing"
    /\ attempt_log = None
    /\ received = <<>>
    /\ refused = NoneRefused
    /\ stop_log = NoStop

\* The service after construction, followed for MaxTicks steps of time.
InitDDS ==
    /\ Constructed
    /\ horizon = send_interval + MaxTicks
    /\ late = 0

\* set_hole_id
SetHoleId(h) ==
    /\ UNCHANGED <<gnss_vars, fn_vars, pm_vars, hf_vars, gga_vars>>
    /\ hole_id' = h
    /\ hole_id # h
    /\ UNCHANGED <<data_queue, last_send_time, send_thread, running, stats,
                   clock, horizon, late, wk, fl, c_pc, join_deadline, added, posts, commit_log, attempt_log, received, refused, stop_log>>

\* The model adds MaxAdds samples, to an empty queue or to one a sample short
\* of full.
AddsAllowed ==
    \/ added < MaxAdds
    \/ maxlen - 1 <= added /\ added < maxlen - 1 + MaxAdds

\* add_velocity_data: a call without timestamp stamps the sample with
\* time.time().
AddVelocityData(velocity_ms, depth_m, timestamp) ==
    /\ UNCHANGED <<gnss_vars, fn_vars, pm_vars, hf_vars, gga_vars>>
    /\ AddsAllowed
    /\ velocity_ms = added + 1
    /\ data_queue' = DequeAppend(data_queue,
                        [velocity_ms |-> velocity_ms, depth_m |-> depth_m,
                         timestamp |-> IF timestamp = None THEN clock
                                       ELSE timestamp])
    /\ added' = added + 1
    /\ UNCHANGED <<hole_id, last_send_time, send_thread, running, stats,
                   clock, horizon, late, wk, fl, c_pc, join_deadline, posts, commit_log, attempt_log, received, refused, stop_log>>

WorkersCreated == Cardinality({w \in Workers : wk[w].pc # "unborn"})

\* (mutant) start() takes every hole id
HoleIdNeverMissing(id) == FALSE

\* if not self.hole_id
HoleIdMissing(id) == Falsy(id)

\* start() on a service that is not running and has no hole id: the warning
\* and a return; nothing is changed.
StartWithoutHoleId ==
    /\ UNCHANGED <<gnss_vars, fn_vars, pm_vars, hf_vars, gga_vars>>
    /\ c_pc = "idle"
    /\ ~running
    /\ HoleIdMissing(hole_id)
    /\ refused' = [refused EXCEPT !.start = TRUE]
    /\ UNCHANGED <<hole_id, data_queue, last_send_time, send_thread, running,
                   stats, clock, horizon, late, wk, fl, c_pc, join_deadline, added, posts,
                   commit_log, attempt_log, received, stop_log>>

\* if not self.running: return
NotRunning(is_running) == ~is_running

\* stop() on a service that is not running: a return; nothing is changed.
StopNotRunning ==
    /\ UNCHANGED <<gnss_vars, fn_vars, pm_vars, hf_vars, gga_vars>>
    /\ c_pc = "idle"
    /\ NotRunning(running)
    /\ refused' = [refused EXCEPT !.stop = TRUE]
    /\ UNCHANGED <<hole_id, data_queue, last_send_time, send_thread, running,
                   stats, clock, horizon, late, wk, fl, c_pc, join_deadline, added, posts,
                   commit_log, attempt_log, received, stop_log>>

\* start(): nothing when running or without a hole id; else a new thread.
Start ==
    /\ UNCHANGED <<gnss_vars, fn_vars, pm_vars, hf_vars, gga_vars>>
    /\ c_pc = "idle"
    /\ ~running
    /\ ~HoleIdMissing(hole_id)
    /\ WorkersCreated < MaxWorkers
    /\ running' = TRUE
    /\ send_thread' = WorkersCreated + 1
    /\ wk' = [wk EXCEPT ![WorkersCreated + 1].pc = "loop"]
    /\ stop_log' = NoStop
    /\ refused' = NoneRefused
    /\ UNCHANGED <<hole_id, data_queue, last_send_time, stats, clock, horizon, late, fl, c_pc,
                   join_deadline, added, posts, commit_log, attempt_log, received>>

\* stop(), first half: clear the flag and enter the final flush.
StopBegin ==
    /\ UNCHANGED <<gnss_vars, fn_vars, pm_vars, hf_vars, gga_vars>>
    /\ c_pc = "idle"
    /\ ~NotRunning(running)
    /\ running' = FALSE
    /\ c_pc' = "stop_flush"
    /\ fl' = [fl EXCEPT ![Caller] = [NoFlush EXCEPT !.pc = "begin"]]
    /\ stop_log' = [active |-> TRUE,
                    pending |-> IF Len(data_queue) = 1 THEN data_queue[1] ELSE NoSample,
                    in_flight |-> \E t \in Threads : fl[t].pc = "call",
                    posts_before |-> Len(posts),
                    added_before |-> added,
                    worker |-> send_thread]
    /\ UNCHANGED <<hole_id, data_queue, last_send_time, send_thread, stats,
                   clock, horizon, late, wk, join_deadline, added, posts, commit_log, attempt_log, received, refused>>

\* (mutant) the loop never ends
LoopNeverEnds(is_running) == FALSE

\* while self.running: the loop ends when the flag is found cleared
LoopEnds(is_running) == ~is_running

\* if current_time - self.last_send_time >= self.send_interval
IntervalElapsed(current_time, last) == current_time - last >= send_interval

\* The worker's loop head: while self.running, read the time and decide
\* whether the interval since last_send_time has elapsed.
WorkerLoop(w) ==
    /\ UNCHANGED <<gnss_vars, fn_vars, pm_vars, hf_vars, gga_vars>>
    /\ wk[w].pc = "loop"
    /\ IF LoopEnds(running)
       THEN /\ wk' = [wk EXCEPT ![w].pc = "exited"]
            /\ fl' = fl
            /\ attempt_log' = attempt_log
       ELSE IF IntervalElapsed(clock, last_send_time)
       THEN /\ wk' = [wk EXCEPT ![w].pc = "flush", ![w].current_time = clock]
            /\ fl' = [fl EXCEPT ![w] = [NoFlush EXCEPT !.pc = "begin"]]
            /\ attempt_log' = clock
       ELSE /\ wk' = [wk EXCEPT ![w].pc = "sleep"]
            /\ fl' = fl
            /\ attempt_log' = attempt_log
    /\ UNCHANGED <<hole_id, data_queue, last_send_time, send_thread, running,
                   stats, clock, horizon, late, c_pc, join_deadline, added, posts, commit_log,
                   received, refused, stop_log>>

\* Where the worker is after _send_pending_data has returned, r being what
\* the remote gave back ("nothing" when it was not asked): _send_pending_data
\* lets no exception out, and the loop goes on to time.sleep(0.5).
AfterFlush(r) == "sleep"

\* What the thread does when its call of _send_pending_data has returned
\* with r: the worker stamps last_send_time (self.last_send_time =
\* current_time, without the lock) and goes on to its sleep; stop() goes on
\* to the join.
FlushReturns(t, r) ==
    IF t = Caller
    THEN /\ c_pc' = "join"
         /\ join_deadline' = clock + JoinTimeout
         /\ UNCHANGED <<wk, last_send_time>>
    ELSE /\ wk' = [wk EXCEPT ![t].pc = AfterFlush(r), ![t].current_time = 0]
         /\ last_send_time' = wk[t].current_time
         /\ UNCHANGED <<c_pc, join_deadline>>

\* a timestamp datetime.utcfromtimestamp rejects with ValueError, TypeError
\* or OSError (1e12, a time in milliseconds, gives a year out of range; a
\* text is no number)
Unconvertible == 999999

\* a timestamp beyond what the platform's time_t holds (1e20, say)
OutOfRange == 1000000

\* datetime.utcfromtimestamp(latest_data['timestamp']) raises OverflowError
\* for such a timestamp, which `except (ValueError, TypeError, OSError)` does
\* not catch.
ConversionRaises(timestamp) == ~Falsy(timestamp) /\ timestamp = OutOfRange

\* The timestamp the submission carries, the conversion having let no
\* exception out: datetime.utcnow() for a falsy timestamp (0) and for one
\* whose ValueError, TypeError or OSError is caught, else the sample's own.
SubmittedTimestamp(timestamp, utcnow) ==
    IF Falsy(timestamp) THEN utcnow
    ELSE IF timestamp = Unconvertible THEN utcnow
    ELSE timestamp

\* Thread t is at the end of _send_pending_data, about to return with r.
FlushEnded(t, r) == [NoFlush EXCEPT !.pc = "done", !.result = r]

\* _send_pending_data, its first statement: if not self.hole_id: return.
\* The attribute is read without the lock.
FlushBegin(t) ==
    /\ UNCHANGED <<gnss_vars, fn_vars, pm_vars, hf_vars, gga_vars>>
    /\ fl[t].pc = "begin"
    /\ fl' = [fl EXCEPT ![t] = IF Falsy(hole_id)
                               THEN FlushEnded(t, "nothing")
                               ELSE [NoFlush EXCEPT !.pc = "queue"]]
    /\ UNCHANGED <<hole_id, data_queue, last_send_time, send_thread, running,
                   stats, clock, horizon, late, wk, c_pc, join_deadline, added, posts,
                   commit_log, attempt_log, received, refused, stop_log>>

\* The first locked block: return when the queue is empty, else take the
\* latest sample; the lock is left.
FlushSnapshot(t) ==
    /\ UNCHANGED <<gnss_vars, fn_vars, pm_vars, hf_vars, gga_vars>>
    /\ fl[t].pc = "queue"
    /\ fl' = [fl EXCEPT ![t] = IF data_queue = <<>>
                               THEN FlushEnded(t, "nothing")
                               ELSE [NoFlush EXCEPT
                                        !.pc = "send",
                                        !.latest_data = LatestOf(data_queue)]]
    /\ UNCHANGED <<hole_id, data_queue, last_send_time, send_thread, running,
                   stats, clock, horizon, late, wk, c_pc, join_deadline, added, posts,
                   commit_log, attempt_log, received, refused, stop_log>>

\* Outside the lock: the timestamp of the sample taken is converted, the
\* time of the call standing in for one that is falsy or that the inner
\* handler catches, and post_drilling_speed is called with self.hole_id as it
\* is now.  An exception the inner handler does not catch is counted as a
\* failure by the outer handler, under the lock, and nothing is sent.
FlushSend(t) ==
    /\ UNCHANGED <<gnss_vars, fn_vars, pm_vars, hf_vars, gga_vars>>
    /\ fl[t].pc = "send"
    /\ IF ConversionRaises(fl[t].latest_data.timestamp)
       THEN /\ fl' = [fl EXCEPT ![t] = FlushEnded(t, "raise")]
            /\ posts' = posts
            /\ stats' = [stats EXCEPT !.total_failed = @ + 1]
       ELSE /\ Len(posts) < MaxPosts
            /\ stats' = stats
            /\ fl' = [fl EXCEPT ![t].pc = "call"]
            /\ posts' = Append(posts,
                    [hole_id |-> hole_id,
                     speed |-> fl[t].latest_data.velocity_ms,
                     depth |-> fl[t].latest_data.depth_m,
                     timestamp |-> SubmittedTimestamp(
                                      fl[t].latest_data.timestamp, clock)])
    /\ UNCHANGED <<hole_id, data_queue, last_send_time, send_thread, running,
                   clock, horizon, late, wk, c_pc, join_deadline, added, commit_log,
                   attempt_log, received, refused, stop_log>>

\* (mutant) a success removes the delivered sample only
CommitQueuePopOne(q, r) ==
    IF IsSuccess(r) /\ q # <<>> THEN SubSeq(q, 1, Len(q) - 1) ELSE q

\* (mutant) the queue is cleared whatever the outcome
CommitQueueClearAlways(q, r) == <<>>

\* The second locked block (or the one of the except branch): the queue ...
CommitQueue(q, r) == IF IsSuccess(r) THEN <<>> ELSE q

\* ... and the statistics.
CommitStats(st, r, at) ==
    IF IsSuccess(r)
    THEN [st EXCEPT !.total_sent = @ + 1, !.last_send_time = at]
    ELSE [st EXCEPT !.total_failed = @ + 1]

\* The call of post_drilling_speed comes back with r (or raises), and the
\* flush commits under the lock; the lock is left.
FlushCommit(t, r) ==
    /\ UNCHANGED <<gnss_vars, fn_vars, pm_vars, hf_vars, gga_vars>>
    /\ fl[t].pc = "call"
    /\ data_queue' = CommitQueue(data_queue, r)
    /\ stats' = CommitStats(stats, r, clock)
    /\ fl' = [fl EXCEPT ![t] = FlushEnded(t, r)]
    /\ commit_log' = r
    /\ received' = Append(received, [speed |-> fl[t].latest_data.velocity_ms,
                                      success |-> IsSuccess(r)])
    /\ UNCHANGED <<hole_id, last_send_time, send_thread, running, clock, horizon, late, wk,
                   c_pc, join_deadline, added, posts, attempt_log, refused,
                   stop_log>>

\* _send_pending_data returns to the thread that called it.
FlushReturn(t) ==
    /\ UNCHANGED <<gnss_vars, fn_vars, pm_vars, hf_vars, gga_vars>>
    /\ fl[t].pc = "done"
    /\ fl' = [fl EXCEPT ![t] = NoFlush]
    /\ FlushReturns(t, fl[t].result)
    /\ UNCHANGED <<hole_id, data_queue, send_thread, running, stats, clock, horizon, late,
                   added, posts, commit_log, attempt_log, received, refused,
                   stop_log>>

\* join(timeout=5.0) returns because the worker has exited ...
JoinDone ==
    /\ UNCHANGED <<gnss_vars, fn_vars, pm_vars, hf_vars, gga_vars>>
    /\ c_pc = "join"
    /\ wk[send_thread].pc = "exited"
    /\ c_pc' = "idle"
    /\ join_deadline' = 0
    /\ UNCHANGED <<hole_id, data_queue, last_send_time, send_thread, running,
                   stats, clock, horizon, late, wk, fl, added, posts, commit_log, attempt_log, received, refused, stop_log>>

\* ... or because the timeout has passed.
JoinTimedOut ==
    /\ UNCHANGED <<gnss_vars, fn_vars, pm_vars, hf_vars, gga_vars>>
    /\ c_pc = "join"
    /\ wk[send_thread].pc # "exited"
    /\ clock >= join_deadline
    /\ c_pc' = "idle"
    /\ join_deadline' = 0
    /\ UNCHANGED <<hole_id, data_queue, last_send_time, send_thread, running,
                   stats, clock, horizon, late, wk, fl, added, posts, commit_log, attempt_log, received, refused, stop_log>>

\* A thread in time.sleep(0.5) is runnable again once SleepTicks have passed.
Woken(d) == [w \in Workers |->
               IF wk[w].pc = "sleep" /\ d >= SleepTicks
               THEN [wk[w] EXCEPT !.pc = "loop"] ELSE wk[w]]

\* Time passes: one unit of 0.5 s, which ends the sleeps.  The model lets
\* time run up to the horizon.
Tick ==
    /\ UNCHANGED <<gnss_vars, fn_vars, pm_vars, hf_vars, gga_vars>>
    /\ clock < horizon
    /\ clock' = clock + 1
    /\ wk' = Woken(1)
    /\ UNCHANGED <<horizon, late, hole_id, data_queue, last_send_time, send_thread, running,
                   stats, fl, c_pc, join_deadline, added, posts, commit_log, attempt_log, received, refused, stop_log>>

\* Time passes while stop() waits in join: the whole timeout at once, which
\* takes a worker that is kept inside its remote call (a worker that sleeps
\* or is runnable sees the cleared flag within the timeout).
JoinWait ==
    /\ UNCHANGED <<gnss_vars, fn_vars, pm_vars, hf_vars, gga_vars>>
    /\ c_pc = "join"
    /\ fl[send_thread].pc = "call"
    /\ clock < join_deadline
    /\ clock' = join_deadline
    /\ wk' = Woken(join_deadline - clock)
    /\ horizon' = join_deadline + late
    /\ UNCHANGED <<late, hole_id, data_queue, last_send_time, send_thread, running,
                   stats, fl, c_pc, join_deadline, added, posts, commit_log, attempt_log, received, refused, stop_log>>

NextDDS ==
    \/ \E h \in HoleIds : SetHoleId(h)
    \/ \E d \in Depths : AddVelocityData(added + 1, d, added + 1)
    \/ Start
    \/ StartWithoutHoleId
    \/ StopBegin
    \/ StopNotRunning
    \/ \E w \in Workers : WorkerLoop(w)
    \/ \E t \in Threads : FlushBegin(t)
    \/ \E t \in Threads : FlushSnapshot(t)
    \/ \E t \in Threads : FlushSend(t)
    \/ \E t \in Threads, r \in PostResults : FlushCommit(t, r)
    \/ \E t \in Threads : FlushReturn(t)
    \/ JoinDone
    \/ JoinTimedOut
    \/ Tick
    \/ JoinWait

\* The timestamps add_velocity_data is called with besides the ordinal of
\* the sample: zero, one the conversion rejects and the handler catches, and
\* one it rejects with an exception the handler lets through.
OddStamps == {0, Unconvertible, OutOfRange}

\* The service fed with samples of every timestamp.
NextStamp ==
    \/ NextDDS
    \/ \E d \in Depths, ts \in OddStamps : AddVelocityData(added + 1, d, ts)

(***************************************************************************)
(* GNSSLocationService.  Coordinates are in units of 0.001 degree and      *)
(* distances in mm.                                                        *)
(***************************************************************************)
cache_ttl == 300   \* self.cache_ttl = 300.0
Infinity  == 2000000000   \* float('inf'): above every distance

MaxElapsed  == 300  \* how far past its first value the model lets `now` run
MaxMessages == 2    \* inbound messages handled
MaxFetches  == 2    \* calls of get_all_holes
MaxSubmits  == 2    \* calls of post_drilling_speed by the pipeline

\* The points positions and holes are taken from.
Points == {<<0, 0>>, <<0, 1>>, <<0, 2>>, <<1, 0>>}

\* haversine_distance on Points, rounded to the mm.  On these points two
\* distances differ by more than 1 mm or are the same float, so the order
\* and the ties of the rounded values are those of the floats.
haversine_distance(lat1, lon1, lat2, lon2) ==
    LET dlat == IF lat1 > lat2 THEN lat1 - lat2 ELSE lat2 - lat1
        dlon == IF lon1 > lon2 THEN lon1 - lon2 ELSE lon2 - lon1
    IN  CASE dlat = 0 /\ dlon = 0 -> 0
          [] dlat = 0 /\ dlon = 1 -> 111195
          [] dlat = 0 /\ dlon = 2 -> 222390
          [] dlat = 1 /\ dlon = 0 -> 111195
          [] dlat = 1 /\ dlon = 1 -> 157253
          [] dlat = 1 /\ dlon = 2 -> 248639

\* A hole as the remote lists it, with its id under 'hole_id' ...
Hole(id, lat, lon) ==
    [hole_id |-> id, id |-> None, gps_lat |-> lat, gps_lon |-> lon]

\* ... or under 'id' only.
IdHole(id, lat, lon) ==
    [hole_id |-> None, id |-> id, gps_lat |-> lat, gps_lon |-> lon]

\* max_distance_threshold as given to the constructor: the distance of two
\* points 0.001 degree apart on the equator.
Thresholds == {111195}

\* The positions the inbound messages carry.
FixPoints == {<<0, 0>>, <<0, 1>>}

\* The holes the remote can list: four with both coordinates (two of them
\* at the same distance of <<0, 0>>), two lacking one coordinate.
HoleUniverse ==
    { Hole(1, 0, 0), Hole(2, 0, 1), Hole(3, 1, 0), Hole(4, 0, 2),
      Hole(5, None, 1), Hole(6, 0, None) }

NoHole == Hole(None, None, None)

\* _find_nearest_hole: the loop over holes[i..], carrying nearest_hole and
\* min_distance.
RECURSIVE FindNearestFrom(_, _, _, _, _, _)
\* (mutant) a hole at an equal distance replaces the one kept
CloserOrEqual(distance, min_distance) == distance <= min_distance

\* the comparison of _find_nearest_hole: strictly smaller
Closer(distance, min_distance) == distance < min_distance

\* the body of the loop, for one hole
NearestStep(hole, lat, lon, nearest_hole, min_distance) ==
    IF hole.gps_lat = None \/ hole.gps_lon = None
    THEN [hole |-> nearest_hole, distance |-> min_distance]
    ELSE LET distance == haversine_distance(lat, lon, hole.gps_lat, hole.gps_lon)
         IN  IF Closer(distance, min_distance)
             THEN [hole |-> hole, distance |-> distance]
             ELSE [hole |-> nearest_hole, distance |-> min_distance]

FindNearestFrom(holes, i, lat, lon, nearest_hole, min_distance) ==
    IF i > Len(holes)
    THEN [hole |-> nearest_hole, distance |-> min_distance]
    ELSE LET f == NearestStep(holes[i], lat, lon, nearest_hole, min_distance)
         IN  FindNearestFrom(holes, i + 1, lat, lon, f.hole, f.distance)

FindNearestHole(holes, lat, lon) ==
    FindNearestFrom(holes, 1, lat, lon, NoHole, Infinity)

\* What get_all_holes can give back: no result, a mapping whose success is
\* not true, or a mapping with success true and a hole list.
HoleLists ==
    { <<>>,
      <<Hole(2, 0, 1), Hole(3, 1, 0)>>,
      <<Hole(5, None, 1), Hole(4, 0, 2)>>,
      <<Hole(2, 0, 1), IdHole(7, 0, 0)>> }

FetchResults ==
    {[kind |-> "none", holes |-> <<>>], [kind |-> "fail", holes |-> <<>>]}
    \cup {[kind |-> "ok", holes |-> L] : L \in HoleLists}

\* if result and result.get('success')
FetchSucceeded(r) == r.kind = "ok"

\* the cache test of _get_holes
CacheFresh(cache, timestamp, current_time) ==
    cache # <<>> /\ current_time - timestamp < cache_ttl

\* (mutant) a failed fetch drops the cache
GetHolesDropOnFailure(cache, timestamp, current_time, r) ==
    IF CacheFresh(cache, timestamp, current_time)
    THEN [cache |-> cache, timestamp |-> timestamp, returned |-> cache,
          fetched |-> FALSE, alias |-> TRUE]
    ELSE IF FetchSucceeded(r)
    THEN [cache |-> r.holes, timestamp |-> current_time, returned |-> r.holes,
          fetched |-> TRUE, alias |-> TRUE]
    ELSE [cache |-> <<>>, timestamp |-> 0, returned |-> <<>>,
          fetched |-> TRUE, alias |-> FALSE]

\* (mutant) a successful fetch is added to the list already cached
GetHolesMerge(cache, timestamp, current_time, r) ==
    IF CacheFresh(cache, timestamp, current_time)
    THEN [cache |-> cache, timestamp |-> timestamp, returned |-> cache,
          fetched |-> FALSE, alias |-> TRUE]
    ELSE IF FetchSucceeded(r)
    THEN [cache |-> cache \o r.holes, timestamp |-> current_time,
          returned |-> cache \o r.holes, fetched |-> TRUE, alias |-> TRUE]
    ELSE [cache |-> cache, timestamp |-> timestamp, returned |-> <<>>,
          fetched |-> TRUE, alias |-> FALSE]

\* _get_holes as a function of the cache, the time and what the remote gives
\* back if asked: the new cache and timestamp, the list returned, whether the
\* remote was asked, and whether the list returned is the cache object itself.
GetHoles(cache, timestamp, current_time, r) ==
    IF CacheFresh(cache, timestamp, current_time)
    THEN [cache |-> cache, timestamp |-> timestamp, returned |-> cache,
          fetched |-> FALSE, alias |-> TRUE]
    ELSE IF FetchSucceeded(r)
    THEN [cache |-> r.holes, timestamp |-> current_time, returned |-> r.holes,
          fetched |-> TRUE, alias |-> TRUE]
    ELSE [cache |-> cache, timestamp |-> timestamp, returned |-> <<>>,
          fetched |-> TRUE, alias |-> FALSE]

\* (mutant) the list is left as it is
KeptCache(cache) == cache

\* clear_cache: the list is emptied in place, the timestamp reset.
ClearedCache(cache) == <<>>

(***************************************************************************)
(* Inbound payloads.  A mapping is given by the values under its six       *)
(* coordinate keys (None: key absent or null) and by at most one of the    *)
(* keys gps, location, gnss with the value under it (whether it is a       *)
(* mapping, whether it is truthy: a mapping without entries is not); a GGA *)
(* sentence by what _parse_nmea_gpgga makes of it.  Payload bytes that are *)
(* no UTF-8 text are the kind "undecodable".                               *)
(***************************************************************************)
\* a text value that float() rejects
NotNumber == -2

Coords(la, lt, gl, lo, lg, go) ==
    [lat |-> la, latitude |-> lt, gps_lat |-> gl,
     lon |-> lo, longitude |-> lg, gps_lon |-> go]

NoCoords == Coords(None, None, None, None, None, None)

NoPosition == [lat |-> None, lon |-> None]

Payload(kind, top, nest_key, nest_is_map, nest_truthy, nested, gga) ==
    [kind |-> kind, top |-> top, nest_key |-> nest_key,
     nest_is_map |-> nest_is_map, nest_truthy |-> nest_truthy,
     nested |-> nested, gga |-> gga]

\* a GGA sentence that parses to (lat, lon)
Nmea(lat, lon) ==
    Payload("nmea", NoCoords, "none", FALSE, FALSE, NoCoords,
            [lat |-> lat, lon |-> lon])

\* a mapping, or the JSON text of one, without nested mapping
Flat(kind, top) ==
    Payload(kind, top, "none", FALSE, FALSE, NoCoords, NoPosition)

\* a mapping, or the JSON text of one, with a nested mapping under nest_key
\* that has an entry at least
Nested(kind, top, nest_key, nested) ==
    Payload(kind, top, nest_key, TRUE, TRUE, nested, NoPosition)

\* ... with a nested mapping without entries, {}, under nest_key
EmptyNested(kind, top, nest_key) ==
    Payload(kind, top, nest_key, TRUE, FALSE, NoCoords, NoPosition)

\* payload bytes that are no UTF-8 text
Undecodable ==
    Payload("undecodable", NoCoords, "none", FALSE, FALSE, NoCoords, NoPosition)

MappingKinds == {"mapping", "json_text"}
NestKeys == {"gps", "location", "gnss"}

\* Python's `a or b or c`: the first truthy operand, else the last one.
Or3(a, b, c) == IF ~Falsy(a) THEN a ELSE IF ~Falsy(b) THEN b ELSE c

\* Python's `a or b`
Or2(a, b) == IF ~Falsy(a) THEN a ELSE b

\* hole_id_str = hole.get('hole_id') or hole.get('id')
HoleIdStr(hole) == Or2(hole.hole_id, hole.id)

\* Format 1: the keys of the mapping itself
DirectKeys(m) ==
    [lat |-> Or3(m.lat, m.latitude, m.gps_lat),
     lon |-> Or3(m.lon, m.longitude, m.gps_lon)]

\* Format 2: the keys read in the nested mapping
NestedKeys(m) ==
    [lat |-> Or2(m.lat, m.latitude), lon |-> Or2(m.lon, m.longitude)]

\* gps_obj = payload.get('gps') or payload.get('location') or
\* payload.get('gnss'), and isinstance(gps_obj, dict): `or` passes over a
\* falsy value under gps or location and ends with what is under gnss.
GpsObjIsMap(p) ==
    /\ p.nest_key # "none"
    /\ p.nest_is_map
    /\ p.nest_truthy \/ p.nest_key = "gnss"

\* lat and lon as the handler reads them in a mapping
MappingPosition(p) ==
    LET direct == DirectKeys(p.top)
    IN  IF direct.lat # None THEN direct
        ELSE IF GpsObjIsMap(p) THEN NestedKeys(p.nested)
        ELSE direct

\* lat and lon as the handler has them before its `lat is None or lon is None`
ExtractPosition(p) ==
    CASE p.kind = "nmea" -> p.gga
      [] p.kind \in MappingKinds -> MappingPosition(p)
      [] OTHER -> NoPosition

\* Where the handling of p raises: json.loads on a text that is not JSON,
\* data.get on a decoded value that is no mapping, float() on a value that
\* is no number; "none" when nothing raises.
RaiseSite(p) ==
    LET pos == ExtractPosition(p)
    IN  CASE p.kind = "text" -> "json_loads"
          [] p.kind = "nmea" /\ p.gga = NoPosition -> "json_loads"
          [] p.kind = "json_other" -> "data_get"
          [] pos.lat # None /\ pos.lon # None /\ NotNumber \in {pos.lat, pos.lon} -> "float"
          [] OTHER -> "none"

\* (mutant) only the inner try catches
CaughtInnerOnly(site) == site \in {"none", "json_loads", "data_get"}

\* the bare except around the JSON-text branch and the except Exception
\* around the whole body
Caught(site) == site \in {"none", "json_loads", "data_get"} \cup {"float"}

\* What _on_mqtt_message makes of payload p.
ParseMessage(p) ==
    LET pos == ExtractPosition(p)
        site == RaiseSite(p)
    IN  [outcome |-> IF pos.lat = None \/ pos.lon = None THEN "nofix"
                     ELSE IF site = "float" THEN "error" ELSE "fix",
         lat |-> pos.lat, lon |-> pos.lon, escaped |-> ~Caught(site)]

\* MQTTSubscriber._on_message: msg.payload.decode('utf-8') raises for bytes
\* that are no UTF-8 text, the handler around it catches that, and the
\* callback is not called.
Decodes(p) == p.kind # "undecodable"

\* What MQTTSubscriber._on_message makes of payload p: what the callback
\* _on_mqtt_message makes of the decoded payload, when it is called.
SubscriberMessage(p) ==
    IF Decodes(p) THEN ParseMessage(p)
    ELSE [outcome |-> "undecodable", lat |-> None, lon |-> None,
          escaped |-> FALSE]

\* The payloads of the parse specification.
CoordValues == {None, 0, 1, 2}
NestedValues == {None, 1, 2}

FlatPayloads ==
    {Flat(k, Coords(la, lt, gl, lo, lg, go)) :
        k \in MappingKinds, la \in CoordValues, lt \in CoordValues,
        gl \in CoordValues, lo \in CoordValues, lg \in CoordValues,
        go \in CoordValues}

NestedPayloads ==
    {Nested(k, Coords(la, None, None, lo, None, None), nk,
            Coords(nla, nlt, ngl, nlo, nlg, ngo)) :
        k \in MappingKinds, la \in {None, 0, 1}, lo \in {None, 1},
        nk \in NestKeys, nla \in NestedValues, nlt \in NestedValues,
        ngl \in NestedValues, nlo \in NestedValues, nlg \in NestedValues,
        ngo \in NestedValues}
    \cup {EmptyNested(k, Coords(la, None, None, lo, None, None), nk) :
            k \in MappingKinds, la \in {None, 0, 1}, lo \in {None, 1},
            nk \in NestKeys}

\* coordinates that are no numbers, a nested value that is no mapping (a
\* text, say), texts and other decoded values, and bytes that do not decode
OddPayloads ==
    {Flat(k, Coords(la, None, None, lo, None, None)) :
        k \in MappingKinds, la \in {NotNumber, 1}, lo \in {NotNumber, 1}}
    \cup {Payload(k, NoCoords, nk, FALSE, TRUE, NoCoords, NoPosition) :
            k \in MappingKinds, nk \in NestKeys}
    \cup {Payload(k, NoCoords, "none", FALSE, FALSE, NoCoords, NoPosition) :
            k \in {"text", "json_other", "other"}}
    \cup {Nmea(x[1], x[2]) : x \in Points}
    \cup {Payload("nmea", NoCoords, "none", FALSE, FALSE, NoCoords, NoPosition)}
    \cup {Undecodable}

Payloads == FlatPayloads \cup NestedPayloads \cup OddPayloads

\* The payloads of the service specification: GGA sentences for the two
\* positions, and a mapping.
GnssPayloads ==
    {Nmea(x[1], x[2]) : x \in FixPoints}
    \cup {Flat("mapping", Coords(0, None, None, 1, None, None))}

\* What set_drilling_data is called with.
DrillingSamples == {<<0, 5>>, <<2, 6>>}

\* cache_lock: the callback's thread is inside `with self.cache_lock`;
\* in_flight: it is inside get_all_holes; current_time: the local of _get_holes.
IdlePipeline == [pc |-> "idle", lat |-> None, lon |-> None, holes |-> <<>>,
                 alias |-> FALSE, i |-> 0, hole |-> NoHole, distance |-> None,
                 speed |-> None, clean |-> TRUE, cache_lock |-> FALSE,
                 in_flight |-> FALSE, current_time |-> None]

NoGet == [calls |-> 0, fetched |-> FALSE, kind |-> "none", returned |-> <<>>,
          after_clear |-> FALSE]

NoSet == [pc |-> "idle", velocity_ms |-> None, depth_m |-> None]

NoPair == [velocity_ms |-> None, depth_m |-> None]

NoLife == [op |-> "none", was_running |-> FALSE, did |-> <<>>, returned |-> None]

NoMessage == [outcome |-> "none", lat |-> None, lon |-> None, escaped |-> FALSE,
              running |-> FALSE]

NoFind == [verdict |-> "none", hole_id |-> None, distance |-> None,
           result |-> "nothing"]

InitGNSS ==
    /\ api_linked \in BOOLEAN
    /\ max_distance_threshold \in Thresholds
    /\ holes_cache = <<>>
    /\ holes_cache_timestamp = 0
    /\ now = cache_ttl
    /\ current_velocity_ms = None
    /\ current_depth_m = None
    /\ gnss_stats = [messages_received |-> 0, locations_processed |-> 0,
                     holes_updated |-> 0, last_update_time |-> None,
                     last_location |-> <<None, None>>]
    /\ gnss_running = FALSE
    /\ mqtt_connected = FALSE
    /\ g_pc = "idle"
    /\ sd = NoSet
    /\ pl = IdlePipeline
    /\ fetches = 0
    /\ get_log = NoGet
    /\ last_good = [valid |-> FALSE, holes |-> <<>>, at |-> None]
    /\ cleared = FALSE
    /\ submits = <<>>
    /\ life_log = NoLife
    /\ msg_log = NoMessage
    /\ find_log = NoFind
    /\ set_log = [called |-> FALSE, last |-> NoPair, overwrote |-> FALSE]

\* What start() hands back to its caller: every path of start() ends in a
\* bare return or falls off the end, whether the service was started or not.
StartResult(started) == None

\* (mutant) start() never takes its early return
NeverRunning(is_running) == FALSE

\* if self.running: return
AlreadyRunning(is_running) == is_running

\* start() up to and including subscribe: nothing when running; nothing more
\* when connect() fails; else the transport is connected and subscribed.
GnssStart(connect_ok) ==
    /\ UNCHANGED <<dds_vars, fn_vars, pm_vars, hf_vars, gga_vars>>
    /\ g_pc = "idle"
    /\ IF AlreadyRunning(gnss_running)
       THEN /\ life_log' = [op |-> "start", was_running |-> gnss_running,
                            did |-> <<>>, returned |-> StartResult(FALSE)]
            /\ UNCHANGED <<mqtt_connected, g_pc>>
       ELSE IF ~connect_ok
       THEN /\ life_log' = [op |-> "start", was_running |-> gnss_running,
                            did |-> <<"connect">>,
                            returned |-> StartResult(FALSE)]
            /\ UNCHANGED <<mqtt_connected, g_pc>>
       ELSE /\ life_log' = [op |-> "start", was_running |-> gnss_running,
                            did |-> <<"connect", "subscribe">>,
                            returned |-> None]
            /\ mqtt_connected' = TRUE
            /\ g_pc' = "started"
    /\ UNCHANGED <<api_linked, max_distance_threshold, holes_cache,
                   holes_cache_timestamp, now, current_velocity_ms,
                   current_depth_m, gnss_stats, gnss_running, sd, pl, fetches,
                   get_log, last_good, cleared, submits, msg_log, find_log,
                   set_log>>

\* start(), its last statement: self.running = True
GnssStartEnd ==
    /\ UNCHANGED <<dds_vars, fn_vars, pm_vars, hf_vars, gga_vars>>
    /\ g_pc = "started"
    /\ gnss_running' = TRUE
    /\ g_pc' = "idle"
    /\ life_log' = [life_log EXCEPT !.returned = StartResult(TRUE)]
    /\ UNCHANGED <<api_linked, max_distance_threshold, holes_cache,
                   holes_cache_timestamp, now, current_velocity_ms,
                   current_depth_m, gnss_stats, mqtt_connected, sd, pl, fetches,
                   get_log, last_good, cleared, submits, msg_log,
                   find_log, set_log>>

\* stop() up to self.running = False: nothing when not running.
GnssStop ==
    /\ UNCHANGED <<dds_vars, fn_vars, pm_vars, hf_vars, gga_vars>>
    /\ g_pc = "idle"
    /\ life_log' = [op |-> "stop", was_running |-> gnss_running, did |-> <<>>,
                    returned |-> None]
    /\ IF ~gnss_running
       THEN UNCHANGED <<gnss_running, g_pc>>
       ELSE gnss_running' = FALSE /\ g_pc' = "stopping"
    /\ UNCHANGED <<api_linked, max_distance_threshold, holes_cache,
                   holes_cache_timestamp, now, current_velocity_ms,
                   current_depth_m, gnss_stats, mqtt_connected, sd, pl, fetches,
                   get_log, last_good, cleared, submits, msg_log, find_log,
                   set_log>>

\* stop(), the rest: self.mqtt_subscriber.disconnect()
GnssStopEnd ==
    /\ UNCHANGED <<dds_vars, fn_vars, pm_vars, hf_vars, gga_vars>>
    /\ g_pc = "stopping"
    /\ mqtt_connected' = FALSE
    /\ g_pc' = "idle"
    /\ life_log' = [life_log EXCEPT !.did = <<"disconnect">>]
    /\ UNCHANGED <<api_linked, max_distance_threshold, holes_cache,
                   holes_cache_timestamp, now, current_velocity_ms,
                   current_depth_m, gnss_stats, gnss_running, sd, pl, fetches,
                   get_log, last_good, cleared, submits, msg_log, find_log,
                   set_log>>

\* (mutant) an attribute keeps the first value written to it
FirstWritten(old, new) == IF old = None THEN new ELSE old

\* an attribute assignment of set_drilling_data
Written(old, new) == new

\* The pipeline run in progress has seen a set_drilling_data step.
Disturbed == IF pl.pc = "idle" THEN pl ELSE [pl EXCEPT !.clean = FALSE]

\* set_drilling_data, its first assignment: self.current_velocity_ms
SetDrillingData(velocity_ms, depth_m) ==
    /\ UNCHANGED <<dds_vars, fn_vars, pm_vars, hf_vars, gga_vars>>
    /\ sd.pc = "idle"
    /\ [velocity_ms |-> velocity_ms, depth_m |-> depth_m] # set_log.last
    /\ current_velocity_ms' = Written(current_velocity_ms, velocity_ms)
    /\ sd' = [pc |-> "depth", velocity_ms |-> velocity_ms, depth_m |-> depth_m]
    /\ set_log' = [set_log EXCEPT !.called = TRUE]
    /\ pl' = Disturbed
    /\ UNCHANGED <<api_linked, max_distance_threshold, holes_cache,
                   holes_cache_timestamp, now, current_depth_m, gnss_stats,
                   gnss_running, mqtt_connected, g_pc, fetches, get_log,
                   last_good, cleared, submits, life_log, msg_log, find_log>>

\* set_drilling_data, its second assignment: self.current_depth_m
SetDrillingDepth ==
    /\ UNCHANGED <<dds_vars, fn_vars, pm_vars, hf_vars, gga_vars>>
    /\ sd.pc = "depth"
    /\ current_depth_m' = Written(current_depth_m, sd.depth_m)
    /\ sd' = NoSet
    /\ set_log' = [called |-> TRUE,
                   last |-> [velocity_ms |-> sd.velocity_ms, depth_m |-> sd.depth_m],
                   overwrote |-> set_log.overwrote \/ set_log.last # NoPair]
    /\ pl' = Disturbed
    /\ UNCHANGED <<api_linked, max_distance_threshold, holes_cache,
                   holes_cache_timestamp, now, current_velocity_ms, gnss_stats,
                   gnss_running, mqtt_connected, g_pc, fetches, get_log,
                   last_good, cleared, submits, life_log, msg_log, find_log>>

\* clear_cache: self.holes_cache.clear() empties the list object, which is
\* also the list a _get_holes call has handed to the pipeline.
ClearCache ==
    /\ UNCHANGED <<dds_vars, fn_vars, pm_vars, hf_vars, gga_vars>>
    /\ ~pl.cache_lock
    /\ holes_cache' = ClearedCache(holes_cache)
    /\ holes_cache_timestamp' = 0
    /\ pl' = IF pl.alias THEN [pl EXCEPT !.holes = ClearedCache(holes_cache)] ELSE pl
    /\ cleared' = TRUE
    /\ last_good' = [last_good EXCEPT !.valid = FALSE]
    /\ ~cleared
    /\ UNCHANGED <<api_linked, max_distance_threshold, now, current_velocity_ms,
                   current_depth_m, gnss_stats, gnss_running, mqtt_connected,
                   g_pc, sd, fetches, get_log, submits, life_log, msg_log,
                   find_log, set_log>>

\* (mutant) every service is taken to be linked to the API
AlwaysLinked(linked) == TRUE

\* if not self.api_client or not self.project_id: return
Linked(linked) == linked

\* (mutant) an inbound message is not counted
MessageStatsUncounted(st) == st

\* with self.stats_lock: self.stats['messages_received'] += 1
MessageStats(st) == [st EXCEPT !.messages_received = @ + 1]

\* with self.stats_lock: locations_processed += 1, last_location = ...
LocationStats(st, lat, lon) ==
    [st EXCEPT !.locations_processed = @ + 1, !.last_location = <<lat, lon>>]

\* MQTTSubscriber._on_message decoding payload p and handing it to
\* _on_mqtt_message, up to the call of _process_location: the message is
\* counted in a first stats_lock block, and a payload that yields a position
\* goes on to _process_location.  Bytes that do not decode are dropped by
\* the subscriber: the callback is not called and nothing is counted.
MqttMessage(p) ==
    /\ UNCHANGED <<dds_vars, fn_vars>>
    /\ mqtt_connected
    /\ pl.pc = "idle"
    /\ LET m == SubscriberMessage(p)
       IN  /\ msg_log' = [outcome |-> m.outcome,
                          lat |-> IF m.outcome = "fix" THEN m.lat ELSE None,
                          lon |-> IF m.outcome = "fix" THEN m.lon ELSE None,
                          escaped |-> m.escaped, running |-> gnss_running]
           /\ IF Decodes(p)
              THEN /\ gnss_stats.messages_received < MaxMessages
                   /\ gnss_stats' = MessageStats(gnss_stats)
                   /\ pl' = IF m.outcome = "fix"
                            THEN [IdlePipeline EXCEPT
                                    !.pc = "process", !.lat = m.lat,
                                    !.lon = m.lon, !.clean = (sd.pc = "idle")]
                            ELSE IdlePipeline
              ELSE /\ gnss_stats' = gnss_stats
                   /\ pl' = pl
    /\ UNCHANGED <<api_linked, max_distance_threshold, holes_cache,
                   holes_cache_timestamp, now, current_velocity_ms,
                   current_depth_m, gnss_running, mqtt_connected, g_pc, sd,
                   fetches, get_log, last_good, cleared, submits, life_log,
                   find_log, set_log>>

\* a message delivered to the running service
OnMqttMessage(p) == MqttMessage(p) /\ UNCHANGED <<pm_vars, hf_vars, gga_vars>>

\* _process_location up to the call of _get_holes: the position is counted
\* and recorded in a second stats_lock block, and the pipeline goes on when
\* the service is linked to the API.
ProcessLocation ==
    /\ UNCHANGED <<dds_vars, fn_vars, pm_vars, hf_vars, gga_vars>>
    /\ pl.pc = "process"
    /\ gnss_stats' = LocationStats(gnss_stats, pl.lat, pl.lon)
    /\ pl' = IF Linked(api_linked) THEN [pl EXCEPT !.pc = "get_holes"]
             ELSE IdlePipeline
    /\ UNCHANGED <<api_linked, max_distance_threshold, holes_cache,
                   holes_cache_timestamp, now, current_velocity_ms,
                   current_depth_m, gnss_running, mqtt_connected, g_pc, sd,
                   fetches, get_log, last_good, cleared, submits, life_log,
                   msg_log, find_log, set_log>>

\* _get_holes up to the call of get_all_holes: the time is read, cache_lock
\* is taken, the cache is found empty or expired, and the remote is asked
\* with the lock held.
ProcessGetHolesFetch ==
    /\ UNCHANGED <<dds_vars, fn_vars, pm_vars, hf_vars, gga_vars>>
    /\ pl.pc = "get_holes"
    /\ ~pl.in_flight
    /\ ~CacheFresh(holes_cache, holes_cache_timestamp, now)
    /\ fetches < MaxFetches
    /\ pl' = [pl EXCEPT !.cache_lock = TRUE, !.in_flight = TRUE,
                        !.current_time = now]
    /\ UNCHANGED <<api_linked, max_distance_threshold, holes_cache,
                   holes_cache_timestamp, now, current_velocity_ms,
                   current_depth_m, gnss_stats, gnss_running, mqtt_connected,
                   g_pc, sd, fetches, get_log, last_good, cleared, submits,
                   life_log, msg_log, find_log, set_log>>

\* _get_holes returns, leaving cache_lock: at once with the cached list when
\* the cache is fresh, else when get_all_holes has come back with r.
ProcessGetHoles(r) ==
    /\ UNCHANGED <<dds_vars, fn_vars, pm_vars, hf_vars, gga_vars>>
    /\ pl.pc = "get_holes"
    /\ pl.in_flight \/ CacheFresh(holes_cache, holes_cache_timestamp, now)
    /\ LET current_time == IF pl.in_flight THEN pl.current_time ELSE now
           g == GetHoles(holes_cache, holes_cache_timestamp, current_time, r)
       IN  /\ ~g.fetched => r = [kind |-> "none", holes |-> <<>>]
           /\ holes_cache' = g.cache
           /\ holes_cache_timestamp' = g.timestamp
           /\ fetches' = IF g.fetched THEN fetches + 1 ELSE fetches
           /\ pl' = [pl EXCEPT !.pc = "got", !.holes = g.returned,
                               !.alias = g.alias, !.cache_lock = FALSE,
                               !.in_flight = FALSE, !.current_time = None]
           /\ get_log' = [calls |-> IF get_log.calls < 2 THEN get_log.calls + 1 ELSE 2,
                          fetched |-> g.fetched,
                          kind |-> IF g.fetched THEN r.kind ELSE "none",
                          returned |-> g.returned,
                          after_clear |-> cleared]
           /\ last_good' = IF g.fetched /\ FetchSucceeded(r)
                           THEN [valid |-> TRUE, holes |-> r.holes,
                                 at |-> current_time]
                           ELSE last_good
    /\ cleared' = FALSE
    /\ UNCHANGED <<api_linked, max_distance_threshold, now, current_velocity_ms,
                   current_depth_m, gnss_stats, gnss_running, mqtt_connected,
                   g_pc, sd, submits, life_log, msg_log, find_log, set_log>>

\* if not holes: return, on the list _get_holes has handed over; else
\* _find_nearest_hole is entered.
ProcessHoles ==
    /\ UNCHANGED <<dds_vars, fn_vars, pm_vars, hf_vars, gga_vars>>
    /\ pl.pc = "got"
    /\ pl' = IF pl.holes = <<>>
             THEN IdlePipeline
             ELSE [pl EXCEPT !.pc = "find", !.i = 1, !.hole = NoHole,
                             !.distance = Infinity]
    /\ UNCHANGED <<api_linked, max_distance_threshold, holes_cache,
                   holes_cache_timestamp, now, current_velocity_ms,
                   current_depth_m, gnss_stats, gnss_running, mqtt_connected,
                   g_pc, sd, fetches, get_log, last_good, cleared, submits,
                   life_log, msg_log, find_log, set_log>>

\* (mutant) a hole exactly at the threshold is too far
WithinThresholdStrict(distance, threshold) == distance < threshold

\* the distance gate of _process_location
WithinThreshold(distance, threshold) == ~(distance > threshold)

\* (mutant) a sample is taken to be there
AlwaysDrillingSample(velocity_ms, depth_m) == TRUE

\* self.current_velocity_ms is not None and self.current_depth_m is not None
HasDrillingSample(velocity_ms, depth_m) == velocity_ms # None /\ depth_m # None

\* What _process_location decides once it has the nearest hole.
FindVerdict(f) ==
    IF f.hole = NoHole THEN "no_hole"
    ELSE IF ~WithinThreshold(f.distance, max_distance_threshold) THEN "too_far"
    ELSE IF ~HasDrillingSample(current_velocity_ms, current_depth_m) THEN "no_sample"
    ELSE "update"

\* _find_nearest_hole, one turn of `for hole in holes`: the iterator hands
\* out the element at its index of the list as it is now.
ProcessFind ==
    /\ UNCHANGED <<dds_vars, fn_vars, pm_vars, hf_vars, gga_vars>>
    /\ pl.pc = "find"
    /\ pl.i <= Len(pl.holes)
    /\ LET f == NearestStep(pl.holes[pl.i], pl.lat, pl.lon, pl.hole, pl.distance)
       IN  pl' = [pl EXCEPT !.i = pl.i + 1, !.hole = f.hole,
                            !.distance = f.distance]
    /\ UNCHANGED <<api_linked, max_distance_threshold, holes_cache,
                   holes_cache_timestamp, now, current_velocity_ms,
                   current_depth_m, gnss_stats, gnss_running, mqtt_connected,
                   g_pc, sd, fetches, get_log, last_good, cleared, submits,
                   life_log, msg_log, find_log, set_log>>

\* The loop of _find_nearest_hole ends when the iterator's index is past the
\* end of the list as it is now; _process_location then tests what was found.
ProcessFound ==
    /\ UNCHANGED <<dds_vars, fn_vars, pm_vars, hf_vars, gga_vars>>
    /\ pl.pc = "find"
    /\ pl.i > Len(pl.holes)
    /\ LET f == [hole |-> pl.hole, distance |-> pl.distance]
       IN  /\ pl' = IF FindVerdict(f) = "update"
                    THEN [pl EXCEPT !.pc = "update", !.i = 0]
                    ELSE IdlePipeline
           /\ find_log' = [verdict |-> FindVerdict(f),
                           hole_id |-> HoleIdStr(f.hole),
                           distance |-> IF f.hole = NoHole THEN None ELSE f.distance,
                           result |-> "nothing"]
    /\ UNCHANGED <<api_linked, max_distance_threshold, holes_cache,
                   holes_cache_timestamp, now, current_velocity_ms,
                   current_depth_m, gnss_stats, gnss_running, mqtt_connected,
                   g_pc, sd, fetches, get_log, last_good, cleared, submits,
                   life_log, msg_log, set_log>>

\* _update_hole_drilling_data up to the evaluation of speed=: return without
\* a hole id or without a sample; else read self.current_velocity_ms.
ProcessUpdate ==
    /\ UNCHANGED <<dds_vars, fn_vars, pm_vars, hf_vars, gga_vars>>
    /\ pl.pc = "update"
    /\ pl' = IF Falsy(HoleIdStr(pl.hole))
                \/ ~HasDrillingSample(current_velocity_ms, current_depth_m)
             THEN IdlePipeline
             ELSE [pl EXCEPT !.pc = "post", !.speed = current_velocity_ms]
    /\ UNCHANGED <<api_linked, max_distance_threshold, holes_cache,
                   holes_cache_timestamp, now, current_velocity_ms,
                   current_depth_m, gnss_stats, gnss_running, mqtt_connected,
                   g_pc, sd, fetches, get_log, last_good, cleared, submits,
                   life_log, msg_log, find_log, set_log>>

\* if result and result.get("success"): the statistics of a submission
UpdatedStats(st, r, at) ==
    IF r = "ok"
    THEN [st EXCEPT !.holes_updated = @ + 1, !.last_update_time = at]
    ELSE st

\* _update_hole_drilling_data: self.current_depth_m is read and
\* post_drilling_speed is called.
ProcessPost ==
    /\ UNCHANGED <<dds_vars, fn_vars, pm_vars, hf_vars, gga_vars>>
    /\ pl.pc = "post"
    /\ Len(submits) < MaxSubmits
    /\ submits' = Append(submits, [hole_id |-> HoleIdStr(pl.hole),
                                   speed |-> pl.speed,
                                   depth |-> current_depth_m,
                                   distance |-> pl.distance])
    /\ pl' = [pl EXCEPT !.pc = "call"]
    /\ UNCHANGED <<api_linked, max_distance_threshold, holes_cache,
                   holes_cache_timestamp, now, current_velocity_ms,
                   current_depth_m, gnss_stats, gnss_running, mqtt_connected,
                   g_pc, sd, fetches, get_log, last_good, cleared, life_log,
                   msg_log, find_log, set_log>>

\* post_drilling_speed gives back r or raises; a success is counted in a
\* stats_lock block, with the time read there.
ProcessPosted(r) ==
    /\ UNCHANGED <<dds_vars, fn_vars, pm_vars, hf_vars, gga_vars>>
    /\ pl.pc = "call"
    /\ find_log' = [find_log EXCEPT !.result = r]
    /\ gnss_stats' = UpdatedStats(gnss_stats, r, now)
    /\ pl' = IdlePipeline
    /\ UNCHANGED <<api_linked, max_distance_threshold, holes_cache,
                   holes_cache_timestamp, now, current_velocity_ms,
                   current_depth_m, gnss_running, mqtt_connected, g_pc, sd,
                   fetches, get_log, last_good, cleared, submits, life_log,
                   msg_log, set_log>>

\* Time passes: a step short of the TTL, or a whole TTL.
TimeSteps == {cache_ttl - 1, cache_ttl}

AdvanceTime(d) ==
    /\ UNCHANGED <<dds_vars, fn_vars, pm_vars, hf_vars, gga_vars>>
    /\ now + d <= cache_ttl + MaxElapsed
    /\ now' = now + d
    /\ UNCHANGED <<api_linked, max_distance_threshold, holes_cache,
                   holes_cache_timestamp, current_velocity_ms, current_depth_m,
                   gnss_stats, gnss_running, mqtt_connected, g_pc, sd, pl,
                   fetches, get_log, last_good, cleared, submits, life_log,
                   msg_log, find_log, set_log>>

\* start(), stop() and the transport thread, which delivers the payloads of
\* the service specification and bytes that do not decode
NextLife ==
    \/ \E ok \in BOOLEAN : GnssStart(ok)
    \/ GnssStartEnd
    \/ GnssStop
    \/ GnssStopEnd
    \/ \E p \in GnssPayloads \cup {Undecodable} : OnMqttMessage(p)
    \/ ProcessLocation

\* the transport thread, the sensor pipeline and the cache of a started service
NextGNSS ==
    \/ \E x \in DrillingSamples : SetDrillingData(x[1], x[2])
    \/ SetDrillingDepth
    \/ ClearCache
    \/ \E p \in GnssPayloads : OnMqttMessage(p)
    \/ ProcessLocation
    \/ ProcessGetHolesFetch
    \/ \E r \in FetchResults : ProcessGetHoles(r)
    \/ ProcessHoles
    \/ ProcessFind
    \/ ProcessFound
    \/ ProcessUpdate
    \/ ProcessPost
    \/ \E r \in PostResults : ProcessPosted(r)
    \/ \E d \in TimeSteps : AdvanceTime(d)

(***************************************************************************)
(* _find_nearest_hole as a function: every list of up to MaxHoles holes of *)
(* HoleUniverse, from every point.                                         *)
(***************************************************************************)
MaxHoles == 3

RECURSIVE SeqsUpTo(_, _)
SeqsUpTo(S, n) ==
    IF n = 0 THEN {<<>>}
    ELSE LET shorter == SeqsUpTo(S, n - 1)
         IN  shorter \cup {Append(q, x) : q \in shorter, x \in S}

NotCalled == [hole |-> NoHole, distance |-> None]

InitNearest ==
    /\ fn_holes \in SeqsUpTo(HoleUniverse, MaxHoles)
    /\ \E p \in Points : fn_lat = p[1] /\ fn_lon = p[2]
    /\ fn_result = NotCalled

CallFindNearest ==
    /\ UNCHANGED <<dds_vars, gnss_vars, pm_vars, hf_vars, gga_vars>>
    /\ fn_result = NotCalled
    /\ fn_result' = FindNearestHole(fn_holes, fn_lat, fn_lon)
    /\ UNCHANGED <<fn_holes, fn_lat, fn_lon>>

IdleNearest == fn_holes = <<>> /\ fn_lat = 0 /\ fn_lon = 0 /\ fn_result = NotCalled

(***************************************************************************)
(* _on_mqtt_message on every payload of Payloads, delivered to a service   *)
(* that was started without API linkage.                                   *)
(***************************************************************************)
NotParsed == [outcome |-> "none", lat |-> None, lon |-> None, escaped |-> FALSE]

NoPayload ==
    Payload("other", NoCoords, "none", FALSE, FALSE, NoCoords, NoPosition)

IdleParse == pm_payload = NoPayload /\ pm_result = NotParsed

InitParse == pm_payload \in Payloads /\ pm_result = NotParsed

\* GNSSLocationService after start()
StartedGNSS ==
    /\ api_linked \in BOOLEAN
    /\ max_distance_threshold \in Thresholds
    /\ holes_cache = <<>>
    /\ holes_cache_timestamp = 0
    /\ now = cache_ttl
    /\ current_velocity_ms = None
    /\ current_depth_m = None
    /\ gnss_stats = [messages_received |-> 0, locations_processed |-> 0,
                     holes_updated |-> 0, last_update_time |-> None,
                     last_location |-> <<None, None>>]
    /\ gnss_running = TRUE
    /\ mqtt_connected = TRUE
    /\ g_pc = "idle"
    /\ sd = NoSet
    /\ pl = IdlePipeline
    /\ fetches = 0
    /\ get_log = NoGet
    /\ last_good = [valid |-> FALSE, holes |-> <<>>, at |-> None]
    /\ cleared = FALSE
    /\ submits = <<>>
    /\ life_log = [op |-> "start", was_running |-> FALSE,
                   did |-> <<"connect", "subscribe">>,
                   returned |-> StartResult(TRUE)]
    /\ msg_log = NoMessage
    /\ find_log = NoFind
    /\ set_log = [called |-> FALSE, last |-> NoPair, overwrote |-> FALSE]

\* ... constructed without API linkage
MonitorGNSS == StartedGNSS /\ ~api_linked

\* the transport delivers pm_payload
DeliverPayload ==
    /\ pm_result = NotParsed
    /\ MqttMessage(pm_payload)
    /\ pm_result' = SubscriberMessage(pm_payload)
    /\ UNCHANGED <<pm_payload, hf_vars, gga_vars>>

(***************************************************************************)
(* hole_finder.find_nearest_hole as a function: every list of up to        *)
(* MaxHoles holes of FinderHoles, from every point, with and without an    *)
(* elevation, with and without a maximum distance, in 2D and in 3D.        *)
(* Elevations are in mm.                                                   *)
(***************************************************************************)
\* A hole dict as the callers hand it over: it has no '_distance' key (None
\* stands for the absent key).
FHole(id, lat, lon, elev) ==
    [hole_id |-> id, gps_lat |-> lat, gps_lon |-> lon, gps_elevation |-> elev,
     _distance |-> None]

NoFHole == FHole(None, None, None, None)

\* The holes handed to the finder: one at <<0, 0>> but 150 m up, two at the
\* same distance of <<0, 0>>, one without elevation, two lacking a coordinate.
FinderHoles ==
    { FHole(1, 0, 0, 150000), FHole(2, 0, 1, 0), FHole(3, 1, 0, 0),
      FHole(4, 0, 2, None), FHole(5, None, 1, 0), FHole(6, 0, None, None) }

\* A hole whose gps_elevation is float('inf'), beside the second hole.
InfiniteHole == FHole(7, 0, 1, Infinity)

FinderElevations == {None, 0}
FinderMaxDistances == {None, 111195, 150000}

\* math.sqrt(horizontal_distance**2 + vertical_distance**2), rounded to the
\* mm, for the horizontal distances of Points and the vertical separations
\* of FinderHoles; float('inf') for an infinite vertical separation.
Pythagoras(horizontal, vertical) ==
    CASE vertical = 0 -> horizontal
      [] vertical = Infinity -> Infinity
      [] vertical = 150000 /\ horizontal = 0 -> 150000
      [] vertical = 150000 /\ horizontal = 111195 -> 186720
      [] vertical = 150000 /\ horizontal = 157253 -> 217321
      [] vertical = 150000 /\ horizontal = 222390 -> 268248
      [] vertical = 150000 /\ horizontal = 248639 -> 290382

calculate_distance_with_elevation(lat1, lon1, elev1, lat2, lon2, elev2) ==
    LET horizontal_distance == haversine_distance(lat1, lon1, lat2, lon2)
        \* abs(elev1 - elev2), one of the elevations at most being infinite
        vertical_distance ==
            IF elev1 = Infinity \/ elev2 = Infinity THEN Infinity
            ELSE IF elev1 > elev2 THEN elev1 - elev2 ELSE elev2 - elev1
    IN  IF elev1 = None \/ elev2 = None
        THEN horizontal_distance
        ELSE Pythagoras(horizontal_distance, vertical_distance)

\* the distance find_nearest_hole and get_holes_sorted_by_distance compute
\* for a hole that has both coordinates
FinderDistance(a, hole) ==
    IF a.use_3d /\ a.elev # None /\ hole.gps_elevation # None
    THEN calculate_distance_with_elevation(a.lat, a.lon, a.elev, hole.gps_lat,
                                           hole.gps_lon, hole.gps_elevation)
    ELSE haversine_distance(a.lat, a.lon, hole.gps_lat, hole.gps_lon)

\* (mutant) no hole is excluded by its distance
BeyondNothing(distance, max_distance) == FALSE

\* if max_distance is not None and distance > max_distance: continue
BeyondMax(distance, max_distance) ==
    max_distance # None /\ distance > max_distance

NotFound == [hole |-> NoFHole, distance |-> None]

\* hole.copy() followed by the assignment of '_distance' to the copy, for
\* the hole at place i of the list: entry is the copy (hole: the keys it took
\* from the hole, distance: its '_distance'), holes the list afterwards.
\* The assignment is to the copy, so the dict of the list keeps its keys.
CopyWithDistance(holes, i, distance) ==
    [entry |-> [hole |-> holes[i], distance |-> distance],
     holes |-> holes]

\* find_nearest_hole: the loop over the list from place i on, carrying
\* nearest_hole (a copy of the hole with its _distance), min_distance and
\* the list as the loop has left it so far.
RECURSIVE FinderFrom(_, _, _, _, _)
FinderFrom(a, holes, i, nearest_hole, min_distance) ==
    IF i > Len(holes)
    THEN [found |-> nearest_hole, holes |-> holes]
    ELSE LET hole == holes[i]
         IN  IF hole.gps_lat = None \/ hole.gps_lon = None
             THEN FinderFrom(a, holes, i + 1, nearest_hole, min_distance)
             ELSE LET distance == FinderDistance(a, hole)
                      copied == CopyWithDistance(holes, i, distance)
                  IN  IF BeyondMax(distance, a.max_distance)
                      THEN FinderFrom(a, holes, i + 1, nearest_hole, min_distance)
                      ELSE IF distance < min_distance
                      THEN FinderFrom(a, copied.holes, i + 1, copied.entry,
                                      distance)
                      ELSE FinderFrom(a, holes, i + 1, nearest_hole, min_distance)

\* find_nearest_hole(current_lat, current_lon, current_elev, holes,
\* max_distance, use_3d): found is what it returns, NotFound standing for
\* None, and holes the list it was given, as the call leaves it.
find_nearest_hole(a) ==
    IF a.holes = <<>> THEN [found |-> NotFound, holes |-> a.holes]
    ELSE FinderFrom(a, a.holes, 1, NotFound, Infinity)

FinderArgs(lat, lon, elev, holes, max_distance, use_3d) ==
    [lat |-> lat, lon |-> lon, elev |-> elev, holes |-> holes,
     max_distance |-> max_distance, use_3d |-> use_3d]

FinderNotCalled == [called |-> FALSE, found |-> NotFound]

\* list.sort(key=_distance): an element goes before another exactly when its
\* key is smaller, so elements of equal key keep their order
SortsBefore(distance, other) == distance < other

\* the place of element x in the sorted list s
RECURSIVE InsertSorted(_, _)
InsertSorted(s, x) ==
    IF s = <<>> THEN <<x>>
    ELSE IF SortsBefore(x.distance, Head(s).distance) THEN <<x>> \o s
    ELSE <<Head(s)>> \o InsertSorted(Tail(s), x)

\* holes_with_distance.sort(key=lambda h: h['_distance'])
RECURSIVE SortByDistance(_)
SortByDistance(s) ==
    IF s = <<>> THEN <<>>
    ELSE InsertSorted(SortByDistance(SubSeq(s, 1, Len(s) - 1)), s[Len(s)])

\* get_holes_sorted_by_distance: the loop over the list from place i on,
\* appending a copy of each hole that has both coordinates and is within
\* max_distance, with its _distance; holes is the list as the loop has left
\* it so far.
RECURSIVE HolesWithDistanceFrom(_, _, _, _)
HolesWithDistanceFrom(a, holes, i, holes_with_distance) ==
    IF i > Len(holes)
    THEN [list |-> holes_with_distance, holes |-> holes]
    ELSE LET hole == holes[i]
         IN  IF hole.gps_lat = None \/ hole.gps_lon = None
             THEN HolesWithDistanceFrom(a, holes, i + 1, holes_with_distance)
             ELSE LET distance == FinderDistance(a, hole)
                      copied == CopyWithDistance(holes, i, distance)
                  IN  IF BeyondMax(distance, a.max_distance)
                      THEN HolesWithDistanceFrom(a, holes, i + 1,
                                                 holes_with_distance)
                      ELSE HolesWithDistanceFrom(a, copied.holes, i + 1,
                              Append(holes_with_distance, copied.entry))

\* holes_with_distance[:limit] for a limit that is None or not negative
UpToLimit(s, limit) ==
    IF limit = None \/ limit >= Len(s) THEN s ELSE SubSeq(s, 1, limit)

\* get_holes_sorted_by_distance(current_lat, current_lon, current_elev,
\* holes, max_distance, use_3d, limit): list is what it returns and holes
\* the list it was given, as the call leaves it.
get_holes_sorted_by_distance(a, limit) ==
    LET looped == HolesWithDistanceFrom(a, a.holes, 1, <<>>)
    IN  [list |-> UpToLimit(SortByDistance(looped.list), limit),
         holes |-> looped.holes]

FinderLimits == {None, 1}

SortedNotCalled == [called |-> FALSE, limit |-> None, list |-> <<>>]

\* The arguments of a call: a position of Points, an elevation, up to
\* MaxHoles holes of the set given, a maximum distance and use_3d.
FinderInputs(holes) ==
    {FinderArgs(p[1], p[2], e, h, m, u) :
        p \in Points, e \in FinderElevations, h \in SeqsUpTo(holes, MaxHoles),
        m \in FinderMaxDistances, u \in BOOLEAN}

\* Holes whose coordinates and elevations are finite numbers or absent.
InitFinder ==
    /\ hf_args \in FinderInputs(FinderHoles)
    /\ hf_result = FinderNotCalled
    /\ hs_result = SortedNotCalled

\* ... and the hole of infinite elevation among them.
InitFinderAny ==
    /\ hf_args \in FinderInputs(FinderHoles \cup {InfiniteHole})
    /\ hf_result = FinderNotCalled
    /\ hs_result = SortedNotCalled

\* A call of find_nearest_hole: its return value, and the list of the
\* caller as the call leaves it.
CallFinder ==
    /\ UNCHANGED <<dds_vars, gnss_vars, fn_vars, pm_vars, gga_vars>>
    /\ ~hf_result.called
    /\ LET returned == find_nearest_hole(hf_args)
       IN  /\ hf_result' = [called |-> TRUE, found |-> returned.found]
           /\ hf_args' = [hf_args EXCEPT !.holes = returned.holes]
    /\ UNCHANGED hs_result

\* A call of get_holes_sorted_by_distance with the same arguments.
CallSorted ==
    /\ UNCHANGED <<dds_vars, gnss_vars, fn_vars, pm_vars, gga_vars>>
    /\ ~hs_result.called
    /\ \E limit \in FinderLimits :
          LET returned == get_holes_sorted_by_distance(hf_args, limit)
          IN  /\ hs_result' = [called |-> TRUE, limit |-> limit,
                               list |-> returned.list]
              /\ hf_args' = [hf_args EXCEPT !.holes = returned.holes]
    /\ UNCHANGED hf_result

IdleFinder ==
    /\ hf_args = FinderArgs(0, 0, None, <<>>, None, FALSE)
    /\ hf_result = FinderNotCalled
    /\ hs_result = SortedNotCalled

(***************************************************************************)
(* _parse_nmea_gpgga as a function.  A field of the sentence is the        *)
(* sequence of its characters, a digit being its number and the decimal    *)
(* point being Dot.  float() gives thousandths; a coordinate is in units   *)
(* of 1/60000 degree (0.001 minute), exact for the fields of the model.    *)
(***************************************************************************)
Dot == 10        \* the character '.'
MaxField == 5    \* longest coordinate field of the model
MinParts == 10   \* if len(parts) < 10: return None

FieldChars == {1, 2, Dot}

RawFields == UNION {[1..n -> FieldChars] : n \in 0..MaxField}

\* coordinate fields paired with every field of RawFields
SampleFields == {<<>>, <<1, 2, 1, Dot, 2>>, <<2, Dot, 1>>}

\* the altitude field: ".00", "12.5" and ""
AltFields == {<<Dot, 0, 0>>, <<1, 2, Dot, 5>>, <<>>}

\* s[:k]
SliceTo(s, k) ==
    LET n == IF k >= 0 THEN k ELSE Len(s) + k
    IN  IF n <= 0 THEN <<>> ELSE IF n >= Len(s) THEN s ELSE SubSeq(s, 1, n)

\* s[k:]
SliceFrom(s, k) ==
    LET n == IF k >= 0 THEN k ELSE Len(s) + k
    IN  IF n <= 0 THEN s ELSE IF n >= Len(s) THEN <<>> ELSE SubSeq(s, n + 1, Len(s))

\* '.' in s
HasDot(s) == \E i \in 1..Len(s) : s[i] = Dot

\* s.find('.'), for a field that has one
FindDot(s) == (CHOOSE i \in 1..Len(s) : s[i] = Dot /\ \A j \in 1..(i - 1) : s[j] # Dot) - 1

RECURSIVE DigitsValue(_)
\* the number a sequence of digits writes
DigitsValue(s) ==
    IF s = <<>> THEN 0 ELSE DigitsValue(SubSeq(s, 1, Len(s) - 1)) * 10 + s[Len(s)]

\* float(s) in thousandths, for a text of digits and points with at most
\* three decimals; NotNumber where float() raises ValueError.
ParseFloat(s) ==
    IF ~HasDot(s)
    THEN IF s = <<>> THEN NotNumber ELSE DigitsValue(s) * 1000
    ELSE LET whole == SliceTo(s, FindDot(s))
             decimals == SliceFrom(s, FindDot(s) + 1)
             padded == decimals \o <<0, 0, 0>>
         IN  IF HasDot(decimals) \/ (whole = <<>> /\ decimals = <<>>)
             THEN NotNumber
             ELSE DigitsValue(whole) * 1000 + DigitsValue(SubSeq(padded, 1, 3))

NoCoordinate == [ok |-> FALSE, value |-> 0]

\* One coordinate field and its hemisphere field: None for an empty field
\* or a field without point; else degrees and minutes split two characters
\* before the point, a float() that raises being caught by the handler of
\* the whole function; then the sign.
GgaCoordinate(raw, dir, negative_dir) ==
    IF raw = <<>> \/ dir = "" THEN NoCoordinate
    ELSE IF ~HasDot(raw) THEN NoCoordinate
    ELSE LET deg_len == FindDot(raw) - 2
             deg == ParseFloat(SliceTo(raw, deg_len))
             min == ParseFloat(SliceFrom(raw, deg_len))
             value == deg * 60 + min
         IN  IF deg = NotNumber \/ min = NotNumber THEN NoCoordinate
             ELSE [ok |-> TRUE,
                   value |-> IF dir = negative_dir THEN 0 - value ELSE value]

GgaSentence(head, fields, raw_lat, lat_dir, raw_lon, lon_dir, alt) ==
    [head |-> head, fields |-> fields, raw_lat |-> raw_lat, lat_dir |-> lat_dir,
     raw_lon |-> raw_lon, lon_dir |-> lon_dir, alt |-> alt]

NoFix == [ok |-> FALSE, lat |-> 0, lon |-> 0, elevation |-> 0]

\* _parse_nmea_gpgga(nmea_str); head: the text starts with '$' and has
\* 'GGA' among its first seven characters.  NoFix is its None.
parse_nmea_gpgga(s) ==
    LET lat == GgaCoordinate(s.raw_lat, s.lat_dir, "S")
        lon == GgaCoordinate(s.raw_lon, s.lon_dir, "W")
        alt == ParseFloat(s.alt)
    IN  IF ~s.head THEN NoFix
        ELSE IF s.fields < MinParts THEN NoFix
        ELSE IF ~lat.ok \/ ~lon.ok THEN NoFix
        ELSE [ok |-> TRUE, lat |-> lat.value, lon |-> lon.value,
              elevation |-> IF alt = NotNumber THEN 0 ELSE alt]

\* What _on_mqtt_message makes of a text that starts with '$': a fix goes on
\* to _process_location; without one the text is tried as JSON, which it is
\* not, and the handler returns before _process_location.
GgaHandled(fix) == IF fix.ok THEN "fix" ELSE "nofix"

GgaNotCalled == [called |-> FALSE, fix |-> NoFix, handled |-> "none"]

GgaDirs == {<<"N", "E">>, <<"S", "W">>, <<"", "E">>, <<"N", "">>}

GgaFieldPairs ==
    (RawFields \X SampleFields) \cup (SampleFields \X RawFields)

InitGga ==
    /\ gga_args \in {GgaSentence(h, n, c[1], d[1], c[2], d[2], a) :
                       h \in BOOLEAN, n \in {MinParts - 1, MinParts},
                       c \in GgaFieldPairs, d \in GgaDirs, a \in AltFields}
    /\ gga_result = GgaNotCalled

CallGga ==
    /\ UNCHANGED <<dds_vars, gnss_vars, fn_vars, pm_vars, hf_vars>>
    /\ ~gga_result.called
    /\ gga_result' = [called |-> TRUE, fix |-> parse_nmea_gpgga(gga_args),
                      handled |-> GgaHandled(parse_nmea_gpgga(gga_args))]
    /\ UNCHANGED gga_args

IdleGga ==
    /\ gga_args = GgaSentence(FALSE, 0, <<>>, "", <<>>, "", <<>>)
    /\ gga_result = GgaNotCalled

(***************************************************************************)
(* Specifications.                                                         *)
(***************************************************************************)
\* GNSSLocationService as it is when only DrillingDataService is looked at.
IdleGNSS == InitGNSS /\ ~api_linked

\* DrillingDataService, from construction.
InitSpecDDS == InitDDS /\ IdleGNSS /\ IdleNearest /\ IdleParse /\ IdleFinder /\ IdleGga
SpecDDS == InitSpecDDS /\ [][NextDDS]_vars

\* DrillingDataService followed past a join of stop() that timed out: time
\* stands still until stop() waits in its join, and takes LateTicks steps
\* after the timeout.
InitSpecDDSLate ==
    /\ Constructed
    /\ horizon = send_interval
    /\ late = LateTicks
    /\ IdleGNSS /\ IdleNearest /\ IdleParse /\ IdleFinder /\ IdleGga
SpecDDSLate == InitSpecDDSLate /\ [][NextDDS]_vars

\* ... with the scheduling the threads get: time passes, a worker thread that
\* can take a step takes it, and a remote call once made comes back, before
\* the join of stop() has given up or after it.
FairDDS ==
    /\ WF_vars(Tick)
    /\ \A w \in Workers :
          /\ WF_vars(WorkerLoop(w))
          /\ WF_vars(FlushBegin(w))
          /\ WF_vars(FlushSnapshot(w))
          /\ WF_vars(FlushSend(w))
          /\ WF_vars(\E r \in PostResults : FlushCommit(w, r))
          /\ WF_vars(FlushReturn(w))
SpecDDSLive == InitSpecDDSLate /\ [][NextDDS]_vars /\ FairDDS

\* DrillingDataService with samples of every timestamp, followed for the
\* time of one sleep of the worker.
InitSpecStamp ==
    /\ Constructed
    /\ horizon = send_interval + SleepTicks
    /\ late = 0
    /\ IdleGNSS /\ IdleNearest /\ IdleParse /\ IdleFinder /\ IdleGga
SpecStamp == InitSpecStamp /\ [][NextStamp]_vars

\* DrillingDataService after maxlen - 1 samples have been added to a service
\* that was never started: the queue is one sample short of full.  The
\* service is followed for the time of one sleep of the worker.
FilledQueue == [i \in 1..(maxlen - 1) |->
                  [velocity_ms |-> i, depth_m |-> 5, timestamp |-> i]]

InitSpecFull ==
    /\ hole_id \in HoleIds \cup {None}
    /\ data_queue = FilledQueue
    /\ last_send_time = 0
    /\ send_thread = None
    /\ running = FALSE
    /\ stats = [total_sent |-> 0, total_failed |-> 0, last_send_time |-> None]
    /\ clock = send_interval
    /\ horizon = send_interval + SleepTicks
    /\ late = 0
    /\ wk = [w \in Workers |-> NewWorker]
    /\ fl = [t \in Threads |-> NoFlush]
    /\ c_pc = "idle"
    /\ join_deadline = 0
    /\ added = maxlen - 1
    /\ posts = <<>>
    /\ commit_log = "nothing"
    /\ attempt_log = None
    /\ received = <<>>
    /\ refused = NoneRefused
    /\ stop_log = NoStop
    /\ IdleGNSS
    /\ IdleNearest
    /\ IdleParse
    /\ IdleFinder /\ IdleGga
SpecFull == InitSpecFull /\ [][NextDDS]_vars

\* GNSSLocationService once started: messages, samples, cache and time.
InitSpecGNSS == InitDDS /\ StartedGNSS /\ IdleNearest /\ IdleParse /\ IdleFinder /\ IdleGga /\ hole_id = None
SpecGNSS == InitSpecGNSS /\ [][NextGNSS]_vars

\* GNSSLocationService from construction, without API linkage: start(),
\* stop() and the messages the transport delivers meanwhile.
InitSpecLife == InitDDS /\ IdleGNSS /\ IdleNearest /\ IdleParse /\ IdleFinder /\ IdleGga /\ hole_id = None
SpecLife == InitSpecLife /\ [][NextLife]_vars

\* _find_nearest_hole on every input of the bounded sets.
InitSpecNearest == InitDDS /\ IdleGNSS /\ InitNearest /\ IdleParse /\ IdleFinder /\ IdleGga /\ hole_id = None
NextNearest == CallFindNearest
SpecNearest == InitSpecNearest /\ [][NextNearest]_vars

\* _on_mqtt_message on every payload of the bounded sets.
InitSpecParse == InitDDS /\ MonitorGNSS /\ IdleNearest /\ InitParse /\ IdleFinder /\ IdleGga /\ hole_id = None
NextParse == DeliverPayload \/ ProcessLocation
SpecParse == InitSpecParse /\ [][NextParse]_vars

\* hole_finder.find_nearest_hole on every input of the bounded sets.
InitSpecFinder ==
    InitDDS /\ IdleGNSS /\ IdleNearest /\ IdleParse /\ InitFinder /\ IdleGga /\ hole_id = None
NextFinder == CallFinder \/ CallSorted
SpecFinder == InitSpecFinder /\ [][NextFinder]_vars

\* ... and on lists that have a hole of infinite elevation.
InitSpecFinderAny ==
    InitDDS /\ IdleGNSS /\ IdleNearest /\ IdleParse /\ InitFinderAny /\ IdleGga /\ hole_id = None
SpecFinderAny == InitSpecFinderAny /\ [][NextFinder]_vars

\* _parse_nmea_gpgga on every sentence of the bounded sets.
InitSpecGga ==
    InitDDS /\ IdleGNSS /\ IdleNearest /\ IdleParse /\ IdleFinder /\ InitGga /\ hole_id = None
NextGga == CallGga
SpecGga == InitSpecGga /\ [][NextGga]_vars

(***************************************************************************)
(* Claims about DrillingDataService.                                       *)
(***************************************************************************)
\* Thread t leaves the first locked block of _send_pending_data having found
\* a hole id and a non-empty queue.
FlushTakes(t) ==
    /\ fl[t].pc = "queue"
    /\ fl'[t].pc = "send"
    /\ data_queue # <<>>

\* Thread t calls post_drilling_speed.
FlushSends(t) == fl[t].pc = "send" /\ fl'[t].pc = "call"

\* Thread t commits the outcome of its remote submission.
FlushCommits(t) == fl[t].pc = "call" /\ fl'[t].pc = "done"

\* The call of _send_pending_data made by thread t returns.
FlushReturned(t) == fl[t].pc = "done" /\ fl'[t].pc = "off"

\* the submission that carries sample d
SubmissionOf(d) ==
    [hole_id |-> hole_id, speed |-> d.velocity_ms, depth |-> d.depth_m,
     timestamp |-> SubmittedTimestamp(d.timestamp, clock)]

\* C1: a flush that finds a non-empty queue and a hole id submits exactly
\* one sample, the one most recently added when it takes its snapshot; no
\* other step submits anything.
C1_FlushSubmitsLatestOnly ==
    [][ /\ \A t \in Threads :
             /\ FlushTakes(t) =>
                   /\ fl'[t].latest_data = data_queue[Len(data_queue)]
                   /\ posts' = posts
             /\ (fl[t].pc = "send" /\ fl'[t] # fl[t]) => FlushSends(t)
             /\ FlushSends(t) =>
                   /\ fl'[t].latest_data = fl[t].latest_data
                   /\ posts' = Append(posts, SubmissionOf(fl[t].latest_data))
             /\ (FlushCommits(t) \/ FlushReturned(t)) => posts' = posts
        /\ posts' # posts => \E t \in Threads : FlushSends(t)
      ]_vars

\* A flush has sent the latest of two queued samples.
C1_Witness ==
    \E t \in Threads :
        /\ fl[t].pc = "call"
        /\ Len(data_queue) = 2
        /\ Len(posts) = 1
        /\ posts[1].speed = data_queue[2].velocity_ms
        /\ posts[1].speed # data_queue[1].velocity_ms

\* C2: when a flush's submission succeeds the whole queue is cleared, total_sent
\* grows by exactly 1, last_send_time is set to the time of the commit and
\* total_failed is unchanged.
C2_SuccessClearsWholeQueue ==
    [][ \A t \in Threads :
          FlushCommits(t) /\ commit_log' = "ok" =>
            /\ data_queue' = <<>>
            /\ stats'.total_sent = stats.total_sent + 1
            /\ stats'.last_send_time = clock
            /\ stats'.total_failed = stats.total_failed
      ]_vars

\* A successful flush delivered sample 1 and emptied a queue to which sample 2
\* had been added meanwhile.
C2_Witness ==
    /\ commit_log = "ok"
    /\ data_queue = <<>>
    /\ added = 2
    /\ stats.total_sent = 1
    /\ stats.last_send_time = clock
    /\ Len(posts) = 1
    /\ posts[1].speed = 1

\* C3: when a flush's submission fails (no result, success false, or an
\* exception) the flush removes nothing from the queue, total_failed grows by
\* exactly 1, and total_sent and last_send_time are unchanged.
C3_FailureKeepsQueue ==
    [][ \A t \in Threads :
          FlushCommits(t) /\ commit_log' \in {"fail", "none", "raise"} =>
            /\ data_queue' = data_queue
            /\ stats'.total_failed = stats.total_failed + 1
            /\ stats'.total_sent = stats.total_sent
            /\ stats'.last_send_time = stats.last_send_time
      ]_vars

\* A submission raised after an earlier one had succeeded; the queue still
\* holds its sample.
C3_Witness ==
    /\ commit_log = "raise"
    /\ stats.total_failed = 1
    /\ stats.total_sent = 1
    /\ stats.last_send_time # None
    /\ data_queue # <<>>

Min(a, b) == IF a < b THEN a ELSE b

\* C4: the queue never holds more than maxlen samples and holds them in the
\* order they were added; as long as no flush has succeeded it is exactly the
\* last min(added, maxlen) samples added, so an add to a full queue evicted
\* the oldest sample and nothing else.
C4_QueueBounded ==
    /\ Len(data_queue) <= maxlen
    /\ \A i \in 1..(Len(data_queue) - 1) :
          data_queue[i].velocity_ms < data_queue[i + 1].velocity_ms
    /\ stats.total_sent = 0 =>
          /\ Len(data_queue) = Min(added, maxlen)
          /\ \A i \in 1..Len(data_queue) :
                data_queue[i].velocity_ms = added - Len(data_queue) + i

\* maxlen + 1 samples were added and none delivered: sample 1 is gone.
C4_Witness ==
    /\ added = maxlen + 1
    /\ stats.total_sent = 0
    /\ Len(data_queue) = maxlen
    /\ data_queue[1].velocity_ms = 2
    /\ data_queue[maxlen].velocity_ms = maxlen + 1

\* The remote submissions for the sample that was pending when stop() was
\* called, issued since that call.
StopAttempts ==
    {i \in (stop_log.posts_before + 1)..Len(posts) :
        posts[i].speed = stop_log.pending.velocity_ms}

\* C5: stop() called on a running service with one pending sample (no
\* submission in flight, no sample added afterwards) results in exactly one
\* delivery attempt for that sample between the call and the worker's exit.
C5_StopFlushesExactlyOnce ==
    ( /\ stop_log.active
      /\ stop_log.pending # NoSample
      /\ ~stop_log.in_flight
      /\ added = stop_log.added_before
      /\ c_pc = "idle"
      /\ wk[stop_log.worker].pc = "exited" )
    => Cardinality(StopAttempts) = 1

(***************************************************************************)
(* Claims about the hole cache of GNSSLocationService.                     *)
(***************************************************************************)
\* The pipeline's call of _get_holes returns in this step.
GetStep == pl.pc = "get_holes" /\ pl'.pc # "get_holes"

\* C6: after a successful fetch, whatever list it returned, and until the
\* cache is invalidated, a _get_holes call made while now - fetchedAt < ttl
\* asks the remote nothing, and one made once now - fetchedAt >= ttl asks it
\* once.
C6_OneFetchPerWindow ==
    [][ GetStep /\ last_good.valid =>
          IF now - last_good.at < cache_ttl
          THEN fetches' = fetches
          ELSE fetches' = fetches + 1
      ]_vars

\* C7: a _get_holes call whose remote fetch fails returns the empty sequence
\* and leaves the cached list and the cache timestamp as they were.
C7_FailedFetchKeepsCache ==
    [][ GetStep /\ get_log'.fetched /\ get_log'.kind \in {"none", "fail"} =>
          /\ get_log'.returned = <<>>
          /\ holes_cache' = holes_cache
          /\ holes_cache_timestamp' = holes_cache_timestamp
      ]_vars

\* A refresh of an expired, non-empty cache has failed: the call returned
\* nothing and the stale list and its timestamp are still there.
C7_Witness ==
    /\ get_log.fetched
    /\ get_log.kind \in {"none", "fail"}
    /\ get_log.returned = <<>>
    /\ last_good.valid
    /\ holes_cache # <<>>
    /\ holes_cache = last_good.holes
    /\ holes_cache_timestamp = last_good.at
    /\ now - holes_cache_timestamp >= cache_ttl

\* C8: once a fetch has succeeded and until the cache is invalidated, every
\* _get_holes call hands the pipeline the last successfully fetched list,
\* also when the call's own refresh fails.
C8_ServesLastGoodSnapshot ==
    (get_log.calls > 0 /\ last_good.valid) => get_log.returned = last_good.holes

\* clear_cache runs in this step.
ClearStep == ~cleared /\ cleared'

\* C9: clear_cache leaves the cache empty and its timestamp reset, and the
\* next _get_holes call asks the remote, however recently the cache was filled.
C9_ClearForcesRefetch ==
    [][ /\ ClearStep => holes_cache' = <<>> /\ holes_cache_timestamp' = 0
        /\ GetStep /\ cleared =>
             /\ fetches' = fetches + 1
             /\ get_log'.fetched
      ]_vars

\* A non-empty list was fetched, the cache was cleared within the TTL of that
\* fetch, and the next _get_holes call, still within it, asked the remote
\* (which failed, so the cache is still empty).
C9_Witness ==
    /\ get_log.after_clear
    /\ get_log.fetched
    /\ get_log.kind = "fail"
    /\ ~last_good.valid
    /\ last_good.holes # <<>>
    /\ now - last_good.at < cache_ttl
    /\ fetches = 2
    /\ holes_cache = <<>>
    /\ holes_cache_timestamp = 0

(***************************************************************************)
(* Claims about _find_nearest_hole.                                        *)
(***************************************************************************)
\* The positions in fn_holes of the holes that have both coordinates.
Located == {i \in 1..Len(fn_holes) :
               fn_holes[i].gps_lat # None /\ fn_holes[i].gps_lon # None}

DistanceTo(i) ==
    haversine_distance(fn_lat, fn_lon, fn_holes[i].gps_lat, fn_holes[i].gps_lon)

\* C10: _find_nearest_hole returns a hole that has both coordinates and whose
\* distance is minimal among such holes, with that distance; of the holes at
\* that distance it returns the earliest; without any located hole it returns
\* (None, +infinity).
C10_NearestHole ==
    fn_result # NotCalled =>
        IF Located = {}
        THEN fn_result = [hole |-> NoHole, distance |-> Infinity]
        ELSE \E i \in Located :
                /\ fn_result.hole = fn_holes[i]
                /\ fn_result.distance = DistanceTo(i)
                /\ \A j \in Located : DistanceTo(i) <= DistanceTo(j)
                /\ \A j \in Located : j < i => DistanceTo(i) < DistanceTo(j)

\* A hole without latitude, then two holes at the same distance of the
\* position: the first of the two is returned.
C10_Witness ==
    /\ fn_holes = <<Hole(5, None, 1), Hole(2, 0, 1), Hole(3, 1, 0)>>
    /\ fn_lat = 0
    /\ fn_lon = 0
    /\ fn_result = [hole |-> Hole(2, 0, 1), distance |-> 111195]

(***************************************************************************)
(* Claims about the position pipeline of GNSSLocationService.              *)
(***************************************************************************)
\* _find_nearest_hole returns and _process_location decides on the hole it
\* found in this step.
FindStep == pl.pc = "find" /\ pl'.pc # "find"

\* _update_hole_drilling_data issues its submission in this step.
PostStep == pl.pc = "post" /\ pl'.pc # "post"

\* post_drilling_speed comes back to _update_hole_drilling_data in this step.
PostedStep == pl.pc = "call" /\ pl'.pc # "call"

\* what the loop of _find_nearest_hole has found so far
Found == [hole |-> pl.hole, distance |-> pl.distance]

\* C11: a submission is made for a fix only if the nearest hole is at most
\* max_distance_threshold away: a nearest hole exactly at the threshold goes
\* on to the update (given a sample), one farther ends the processing of the
\* fix, and only a fix that passed the gate changes submits or holes_updated;
\* the hole the gate is applied to is the nearest of the list _get_holes
\* returned as long as that list is left alone, and no nearer than it else.
C11_SubmitOnlyWithinThreshold ==
    [][ /\ (FindStep /\ pl.holes = get_log.returned) =>
             Found = FindNearestHole(pl.holes, pl.lat, pl.lon)
        /\ FindStep =>
             LET f == Found
             IN  /\ (f.hole # NoHole /\ f.distance > max_distance_threshold)
                       => pl'.pc = "idle"
                 /\ ( /\ f.hole # NoHole
                      /\ f.distance <= max_distance_threshold
                      /\ current_velocity_ms # None
                      /\ current_depth_m # None )
                       => pl'.pc = "update" /\ pl'.distance = f.distance
        /\ (pl'.pc = "update" /\ pl.pc # "update") => FindStep
        /\ (pl'.pc = "post" /\ pl.pc # "post") => pl.pc = "update"
        /\ pl'.pc = "post" => pl'.distance <= max_distance_threshold
        /\ submits' # submits
             => /\ PostStep
                /\ pl.distance <= max_distance_threshold
                /\ FindNearestHole(get_log.returned, pl.lat, pl.lon).distance
                      <= max_distance_threshold
                /\ Len(submits') = Len(submits) + 1
        /\ gnss_stats'.holes_updated # gnss_stats.holes_updated
             => /\ PostedStep
                /\ pl.distance <= max_distance_threshold
      ]_vars

\* A fix whose nearest hole was exactly at the threshold was submitted, and
\* the fix after it, whose nearest hole was farther, was not.
C11_Witness ==
    /\ Len(submits) = 1
    /\ submits[1].distance = max_distance_threshold
    /\ find_log.verdict = "too_far"
    /\ find_log.distance > max_distance_threshold
    /\ gnss_stats.locations_processed = 2
    /\ pl.pc = "idle"

\* hole is, among the holes of the list that have both coordinates, one at
\* the least distance of (lat, lon).
IsNearestOf(hole, holes, lat, lon) ==
    LET located == {i \in 1..Len(holes) :
                       holes[i].gps_lat # None /\ holes[i].gps_lon # None}
        dist(i) == haversine_distance(lat, lon, holes[i].gps_lat, holes[i].gps_lon)
    IN  \E i \in located :
            /\ holes[i] = hole
            /\ \A j \in located : dist(i) <= dist(j)

\* C12: the submission of a matched fix carries the id of the hole nearest
\* to the fix in the list _get_holes returned, and of no other hole of that
\* list; holes_updated grows by 1 and last_update_time is set to the current
\* time when the remote reports success, and both are unchanged when it does
\* not; nothing else changes either of them.  The list is the cache object:
\* a clear_cache() that runs while _find_nearest_hole loops over it ends the
\* loop, and the submission goes to the nearest of the holes seen until
\* then, so this is violated.
C12_SubmissionTaggedAndCounted ==
    [][ /\ (FindStep /\ pl'.pc = "update")
              => IsNearestOf(pl'.hole, get_log.returned, pl.lat, pl.lon)
        /\ (pl.pc \in {"update", "post", "call"}
               /\ pl'.pc \in {"update", "post", "call"})
              => pl'.hole = pl.hole
        /\ PostStep =>
              /\ Len(submits') = Len(submits) + 1
              /\ submits'[Len(submits')].hole_id = HoleIdStr(pl.hole)
        /\ PostedStep =>
              IF find_log'.result = "ok"
              THEN /\ gnss_stats'.holes_updated = gnss_stats.holes_updated + 1
                   /\ gnss_stats'.last_update_time = now
              ELSE /\ gnss_stats'.holes_updated = gnss_stats.holes_updated
                   /\ gnss_stats'.last_update_time = gnss_stats.last_update_time
        /\ ~PostedStep =>
              /\ gnss_stats'.holes_updated = gnss_stats.holes_updated
              /\ gnss_stats'.last_update_time = gnss_stats.last_update_time
      ]_vars

\* C13: as long as set_drilling_data has never been called, no fix causes a
\* submission and holes_updated stays 0.
C13_NoSampleNoSubmission ==
    ~set_log.called =>
        /\ submits = <<>>
        /\ gnss_stats.holes_updated = 0
        /\ pl.pc \notin {"update", "post", "call"}

\* A fix at the very position of a hole was processed before any
\* set_drilling_data call: it was dropped for want of a sample.
C13_Witness ==
    /\ ~set_log.called
    /\ find_log.verdict = "no_sample"
    /\ find_log.distance = 0
    /\ gnss_stats.locations_processed > 0
    /\ pl.pc = "idle"
    /\ submits = <<>>
    /\ gnss_stats.holes_updated = 0

\* _on_mqtt_message counts a message in this step.
MessageStep ==
    gnss_stats'.messages_received = gnss_stats.messages_received + 1

\* _process_location is entered in this step.
LocationStep == pl.pc = "process" /\ pl'.pc # "process"

\* C14: without API linkage every fix is counted in locations_processed and
\* recorded in last_location, and no step fetches the holes, submits a sample,
\* enters the pipeline or touches the hole cache or holes_updated.
C14_MonitoringOnly ==
    [][ ~api_linked =>
          /\ (MessageStep /\ msg_log'.outcome = "fix") =>
                /\ pl'.pc = "process"
                /\ <<pl'.lat, pl'.lon>> = <<msg_log'.lat, msg_log'.lon>>
          /\ LocationStep =>
                /\ gnss_stats'.locations_processed =
                      gnss_stats.locations_processed + 1
                /\ gnss_stats'.last_location = <<msg_log.lat, msg_log.lon>>
                /\ pl'.pc = "idle"
          /\ fetches' = fetches
          /\ submits' = submits
          /\ holes_cache' = holes_cache
          /\ gnss_stats'.holes_updated = gnss_stats.holes_updated
          /\ pl'.pc \in {"idle", "process"}
      ]_vars

\* Without linkage two fixes were received, the last at (0, 1), with a sample
\* set: both were recorded and nothing was fetched or submitted.
C14_Witness ==
    /\ ~api_linked
    /\ gnss_stats.locations_processed = 2
    /\ gnss_stats.last_location = <<0, 1>>
    /\ set_log.last # NoPair
    /\ fetches = 0
    /\ submits = <<>>
    /\ holes_cache = <<>>
    /\ gnss_stats.holes_updated = 0

\* A call of start() / stop() makes its first step (the service is between
\* calls and the call is recorded in life_log).
StartCall == g_pc = "idle" /\ life_log' # life_log /\ life_log'.op = "start"
StopCall == g_pc = "idle" /\ life_log' # life_log /\ life_log'.op = "stop"

\* C15: start() on a running service makes no transport call and changes
\* nothing; start() on a stopped service whose connect succeeds subscribes and
\* then sets running; stop() on a running service clears running and then
\* disconnects the transport; stop() on a stopped service does nothing; between
\* calls the service is running exactly when its transport is connected.
C15_Lifecycle ==
    [][ /\ (StartCall /\ gnss_running) =>
              /\ life_log'.did = <<>>
              /\ gnss_running'
              /\ mqtt_connected' = mqtt_connected
              /\ g_pc' = "idle"
        /\ (StartCall /\ ~gnss_running
               /\ life_log'.did = <<"connect", "subscribe">>) =>
              /\ mqtt_connected'
              /\ g_pc' = "started"
        /\ (StartCall /\ ~gnss_running
               /\ life_log'.did # <<"connect", "subscribe">>) =>
              /\ life_log'.did = <<"connect">>
              /\ ~gnss_running'
              /\ ~mqtt_connected'
              /\ g_pc' = "idle"
        /\ (g_pc = "started" /\ g_pc' # g_pc) =>
              /\ gnss_running'
              /\ mqtt_connected'
              /\ g_pc' = "idle"
        /\ (StopCall /\ gnss_running) =>
              /\ ~gnss_running'
              /\ g_pc' = "stopping"
        /\ (g_pc = "stopping" /\ g_pc' # g_pc) =>
              /\ ~gnss_running'
              /\ ~mqtt_connected'
              /\ life_log'.did = <<"disconnect">>
              /\ g_pc' = "idle"
        /\ (StopCall /\ ~gnss_running) =>
              /\ life_log'.did = <<>>
              /\ ~gnss_running'
              /\ mqtt_connected' = mqtt_connected
              /\ g_pc' = "idle"
        /\ (g_pc' = "idle") => (gnss_running' = mqtt_connected')
      ]_vars

\* start() was called on a running service: it made no transport call and the
\* service is still running on its one connection.
C15_Witness ==
    /\ life_log.op = "start"
    /\ life_log.was_running
    /\ life_log.did = <<>>
    /\ gnss_running
    /\ mqtt_connected
    /\ g_pc = "idle"

\* C16: a message delivered while the service is not Running (after
\* connect/subscribe and before start() sets running, or after stop() cleared
\* running and before the disconnect) changes no statistic and starts no
\* pipeline run or remote call.  The code never reads self.running in
\* _on_mqtt_message, so this is violated.
C16_CountedOnlyWhileRunning ==
    [][ ~gnss_running =>
          /\ gnss_stats' = gnss_stats
          /\ pl' = pl
          /\ fetches' = fetches
          /\ submits' = submits
      ]_vars

\* C17: whatever the payload, _on_mqtt_message lets no exception escape and
\* counts the message once; when the payload gives no latitude/longitude pair
\* (or one that is no number), locations_processed, last_location and
\* holes_updated are as before the message.  Bytes that the subscriber
\* cannot decode never reach _on_mqtt_message: nothing escapes and nothing
\* is counted.
C17_BadPayloadOnlyCounted ==
    pm_result # NotParsed =>
        /\ ~pm_result.escaped
        /\ Decodes(pm_payload) => gnss_stats.messages_received = 1
        /\ ~Decodes(pm_payload) => gnss_stats.messages_received = 0
        /\ pm_result.outcome # "fix" =>
              /\ gnss_stats.locations_processed = 0
              /\ gnss_stats.last_location = <<None, None>>
              /\ gnss_stats.holes_updated = 0
              /\ pl = IdlePipeline

\* A JSON text that decodes to something other than a mapping was delivered:
\* data.get raised inside the handler, and the message was only counted.
C17_Witness ==
    /\ pm_payload.kind = "json_other"
    /\ pm_result.outcome = "nofix"
    /\ ~pm_result.escaped
    /\ gnss_stats.messages_received = 1
    /\ gnss_stats.locations_processed = 0

\* the (velocity, depth) of a submission
SampleOf(s) == [velocity_ms |-> s.speed, depth_m |-> s.depth]

\* C18: when no set_drilling_data call overlaps the processing of a fix, the
\* submission made for that fix is one entry carrying the (velocity, depth) of
\* the last completed set_drilling_data call, whatever calls came before it.
C18_LastWriteWins ==
    [][ (PostStep /\ pl.clean) =>
          /\ Len(submits') = Len(submits) + 1
          /\ SubSeq(submits', 1, Len(submits)) = submits
          /\ set_log.last # NoPair
          /\ SampleOf(submits'[Len(submits')]) = set_log.last
      ]_vars

\* Two fixes were submitted with different samples: the second carries the
\* sample of the call that overwrote the first.
C18_Witness ==
    /\ Len(submits) = 2
    /\ set_log.overwrote
    /\ sd.pc = "idle"
    /\ SampleOf(submits[1]) # SampleOf(submits[2])
    /\ SampleOf(submits[2]) = set_log.last

\* the value under the first of three keys that is present
FirstPresent(a, b, c) == IF a # None THEN a ELSE IF b # None THEN b ELSE c

\* the position of a mapping by the first alias present at top level
FirstAliases(m) ==
    [lat |-> FirstPresent(m.lat, m.latitude, m.gps_lat),
     lon |-> FirstPresent(m.lon, m.longitude, m.gps_lon)]

\* C19: for a structured message with a numeric latitude and a numeric
\* longitude under direct aliases, the position used is the value of the first
\* alias present for each, 0 included, later aliases and nested mappings being
\* ignored.  The handler chains the aliases with `or`, which skips a 0, so
\* this is violated.
C19_FirstPresentAliasWins ==
    LET want == FirstAliases(pm_payload.top)
    IN  (/\ pm_result # NotParsed
         /\ pl.pc = "idle"
         /\ pm_payload.kind \in MappingKinds
         /\ want.lat \notin {None, NotNumber}
         /\ want.lon \notin {None, NotNumber}) =>
            /\ pm_result.outcome = "fix"
            /\ gnss_stats.last_location = <<want.lat, want.lon>>

\* C20: a structured message whose coordinates are in a nested mapping under
\* gps, location or gnss, under any alias accepted at top level, gives the
\* position that the flat message with the same keys and values gives.  In the
\* nested mapping the handler reads lat, latitude, lon and longitude only, so
\* this is violated.
C20_NestedParsesAsFlat ==
    (/\ pm_result # NotParsed
     /\ pl.pc = "idle"
     /\ pm_payload.kind \in MappingKinds
     /\ pm_payload.nest_is_map
     /\ pm_payload.top = NoCoords) =>
        LET flat == ParseMessage(Flat(pm_payload.kind, pm_payload.nested))
        IN  /\ pm_result.outcome = flat.outcome
            /\ flat.outcome = "fix" =>
                  gnss_stats.last_location = <<flat.lat, flat.lon>>

\* C21: after a start() whose connect failed the service is stopped, nothing
\* was subscribed, and start() handed its caller a result that differs from
\* the one of a successful start.  start() hands back None on every path, so
\* the last part is violated.
C21_FailedStartReported ==
    (/\ g_pc = "idle"
     /\ life_log.op = "start"
     /\ life_log.did = <<"connect">>) =>
        /\ ~gnss_running
        /\ ~mqtt_connected
        /\ life_log.returned # StartResult(TRUE)

(***************************************************************************)
(* Claims about hole_finder.                                               *)
(***************************************************************************)
\* the holes of the argument list that have both coordinates
Candidates(a) ==
    {a.holes[i] : i \in {j \in 1..Len(a.holes) :
                           a.holes[j].gps_lat # None /\ a.holes[j].gps_lon # None}}

\* C22: find_nearest_hole returns None exactly when no hole with both
\* coordinates is within max_distance (so for an empty list, for a list
\* without coordinates, and when every hole is farther than max_distance);
\* otherwise it returns a hole of the list having both coordinates with its
\* computed distance, which is at most max_distance and at most the distance
\* of every hole having both coordinates; with max_distance None no hole is
\* excluded.
C22_NearestWithinMaxDistance ==
    hf_result.called =>
        LET a == hf_args
            found == hf_result.found
            within == {h \in Candidates(a) :
                         a.max_distance = None
                            \/ FinderDistance(a, h) <= a.max_distance}
        IN  /\ (found = NotFound) <=> (within = {})
            /\ found # NotFound =>
                  /\ found.hole \in Candidates(a)
                  /\ found.distance = FinderDistance(a, found.hole)
                  /\ a.max_distance # None => found.distance <= a.max_distance
                  /\ \A h \in Candidates(a) :
                        found.distance <= FinderDistance(a, h)

\* From <<0, 1>> with a maximum distance of 111195 the finder was given a
\* hole farther than that, a hole exactly that far and a hole without
\* longitude: it returned the hole at the maximum distance.
C22_Witness ==
    /\ hf_result.called
    /\ hf_args.lat = 0
    /\ hf_args.lon = 1
    /\ hf_args.max_distance = 111195
    /\ hf_args.use_3d
    /\ hf_args.elev = 0
    /\ hf_args.holes = <<FHole(1, 0, 0, 150000), FHole(6, 0, None, None),
                         FHole(4, 0, 2, None)>>
    /\ hf_result.found = [hole |-> FHole(4, 0, 2, None), distance |-> 111195]

(***************************************************************************)
(* Claims about locks and threads.                                         *)
(***************************************************************************)
\* C23: no remote call is in flight while its thread holds a lock: neither
\* post_drilling_speed under the queue lock of DrillingDataService nor
\* get_all_holes under cache_lock.  _get_holes asks the remote inside its
\* `with self.cache_lock` block, so this is violated.
C23_NoRemoteCallUnderLock ==
    /\ \A t \in Threads : fl[t].pc = "call" => ~fl[t].lock
    /\ pl.in_flight => ~pl.cache_lock

\* the worker threads that are inside _send_loop
LiveWorkers == {w \in Workers : wk[w].pc \notin {"unborn", "exited"}}

\* C24: at most one worker thread is inside the send loop at any time.  When
\* the join of stop() times out on a worker that is still inside its remote
\* call, a later start() sets running again and creates a second thread, and
\* the first, finding running set, goes on looping: this is violated.
C24_AtMostOneWorker == Cardinality(LiveWorkers) <= 1

\* C25: the hole cache is empty, or it is the whole list of the most recent
\* successful fetch, stamped with the time of that fetch.
C25_CacheIsLastFetchOrEmpty ==
    holes_cache # <<>> =>
        /\ last_good.valid
        /\ holes_cache = last_good.holes
        /\ holes_cache_timestamp = last_good.at

\* A second successful fetch, a TTL after the first, has replaced the cached
\* list by its own.
C25_Witness ==
    /\ fetches = 2
    /\ get_log.fetched
    /\ get_log.kind = "ok"
    /\ holes_cache = <<Hole(5, None, 1), Hole(4, 0, 2)>>
    /\ holes_cache = last_good.holes
    /\ holes_cache_timestamp = 2 * cache_ttl
    /\ gnss_stats.locations_processed = 2

(***************************************************************************)
(* Claims about the worker of DrillingDataService.                         *)
(***************************************************************************)
\* Worker w is at the end of a flush whose submission did not succeed (the
\* remote refused it or gave nothing back, or the call raised), the service
\* is running, and the time the model follows reaches the end of the
\* interval that begins with this attempt of w.
FlushFailed(w) ==
    /\ running
    /\ fl[w].pc = "done"
    /\ fl[w].result \in {"fail", "none", "raise"}
    /\ wk[w].current_time + send_interval <= horizon

\* Worker w has entered _send_pending_data again.
FlushesAgain(w) == wk[w].pc = "flush" /\ fl[w].pc = "begin"

\* The time the model follows has ended with worker w asleep, and as
\* last_send_time stands the interval test of its next wake succeeds.
WakesToFlush(w) ==
    /\ wk[w].pc = "sleep"
    /\ clock = horizon
    /\ IntervalElapsed(clock + SleepTicks, last_send_time)

StoppedWithWorker(w) ==
    /\ ~running
    /\ \/ wk[w].pc = "loop"
       \/ wk[w].pc = "sleep" /\ clock < horizon
       \/ wk[w].pc = "flush" /\ fl[w].pc \in {"call", "done"}

\* C27: a worker that reaches the head of its loop with the flag cleared
\* leaves the loop without starting a flush, and a thread that has left stays
\* out; once stop() has cleared the flag every worker still in the loop,
\* when its remote call has returned and its sleep has ended, exits, unless
\* start() sets the flag again before the worker has seen it.
C27_WorkerExitsAfterStop ==
    /\ [][ \A w \in Workers :
             /\ (wk[w].pc = "loop" /\ ~running /\ wk'[w] # wk[w]) =>
                   wk'[w].pc = "exited" /\ fl'[w] = NoFlush /\ posts' = posts
             /\ wk[w].pc = "exited" =>
                   wk'[w].pc = "exited" /\ fl'[w] = NoFlush ]_vars
    /\ (\E w \in Workers : StoppedWithWorker(w))
          ~> (running \/ \A w \in Workers : ~StoppedWithWorker(w))

\* stop() found the worker inside a submission and its join waited the
\* timeout out with the worker still in the call; the worker then committed
\* the submission, slept, woke, saw the flag cleared and exited.
C27_Witness ==
    /\ stop_log.active
    /\ stop_log.in_flight
    /\ ~running
    /\ c_pc = "idle"
    /\ clock > send_interval + JoinTimeout
    /\ wk[stop_log.worker].pc = "exited"
    /\ \A t \in Threads : fl[t] = NoFlush

\* The step in which worker w, finding the flag set, decides on a tick
\* whether to flush.
WorkerTick(w) == wk[w].pc = "loop" /\ running /\ wk'[w].pc \in {"flush", "sleep"}

\* C28: on a tick the worker flushes if and only if at least send_interval
\* has passed since a worker last entered a flush (or none has yet): two
\* worker flush attempts in a row are never closer than send_interval, and
\* the first tick on which the interval has passed does flush.
C28_FlushIffIntervalElapsed ==
    [][\A w \in Workers :
          WorkerTick(w) =>
             (wk'[w].pc = "flush" <=>
                 (attempt_log = None \/ clock - attempt_log >= send_interval))]_vars

(***************************************************************************)
(* Claims about _parse_nmea_gpgga.                                         *)
(***************************************************************************)
\* the number of digits of a coordinate field before its decimal point
DigitsBeforePoint(raw) == IF HasDot(raw) THEN FindDot(raw) ELSE Len(raw)

\* a coordinate field, or its hemisphere field, that is malformed
MalformedField(raw, dir) ==
    raw = <<>> \/ dir = "" \/ ~HasDot(raw) \/ DigitsBeforePoint(raw) < 2

MalformedSentence(s) ==
    \/ s.fields < MinParts
    \/ MalformedField(s.raw_lat, s.lat_dir)
    \/ MalformedField(s.raw_lon, s.lon_dir)

\* the whole degrees a well-formed field writes: the digits that precede
\* the last two digits before the point
WholeDegrees(raw) == DigitsValue(SliceTo(raw, FindDot(raw) - 2))

Magnitude(x) == IF x < 0 THEN 0 - x ELSE x

\* C29: a malformed GGA sentence (fewer than 10 fields, an empty coordinate
\* or hemisphere field, a coordinate without decimal point or with fewer
\* than two digits before it) is dropped: no fix, _process_location not
\* reached; in a fix the whole degrees of each coordinate are the digits
\* that precede the last two digits before the point, and S and W negate.
C29_MalformedDroppedElseSplit ==
    gga_result.called =>
       /\ MalformedSentence(gga_args) =>
             ~gga_result.fix.ok /\ gga_result.handled = "nofix"
       /\ gga_result.fix.ok =>
             /\ Magnitude(gga_result.fix.lat) \div 60000 = WholeDegrees(gga_args.raw_lat)
             /\ Magnitude(gga_result.fix.lon) \div 60000 = WholeDegrees(gga_args.raw_lon)
             /\ gga_result.fix.lat < 0 => gga_args.lat_dir = "S"
             /\ gga_result.fix.lon < 0 => gga_args.lon_dir = "W"
             /\ gga_args.lat_dir = "S" => gga_result.fix.lat <= 0
             /\ gga_args.lon_dir = "W" => gga_result.fix.lon <= 0

(***************************************************************************)
(* Claims about samples added during a flush.                              *)
(***************************************************************************)
\* the samples of the queue that were added after thread t took the
\* snapshot of its flush (a sample's velocity is its ordinal)
AddedSinceSnapshot(t) ==
    {i \in 1..Len(data_queue) :
        data_queue[i].velocity_ms > fl[t].latest_data.velocity_ms}

\* C30: a sample added while the remote call of a flush is in flight is
\* still in the queue when that flush has committed: a flush takes out of
\* the queue only samples that were there when it took its snapshot.
C30_LateSampleSurvivesCommit ==
    [][\A t \in Threads :
          FlushCommits(t) =>
             \A i \in AddedSinceSnapshot(t) :
                \E j \in 1..Len(data_queue') : data_queue'[j] = data_queue[i]]_vars

(***************************************************************************)
(* Claims about what the remote endpoint receives.                         *)
(***************************************************************************)
\* C31: no sample is successfully delivered more than once: no two remote
\* submissions that succeeded carried the same sample, whatever the
\* interleaving of the worker's flush, the final flush of stop() and adds.
C31_DeliveredAtMostOnce ==
    \A i, j \in 1..Len(received) :
       (i # j /\ received[i].success /\ received[j].success) =>
          received[i].speed # received[j].speed

\* C32: the remote endpoint receives the samples in insertion order: a
\* submission that returns with success never carries a sample added
\* earlier than one carried by a successful submission that returned
\* before it (a sample's speed is its ordinal).
C32_ReceivedInInsertionOrder ==
    \A i, j \in 1..Len(received) :
       (i < j /\ received[i].success /\ received[j].success) =>
          received[i].speed <= received[j].speed

(***************************************************************************)
(* Claims about the shared state of GNSSLocationService.                   *)
(***************************************************************************)
\* C33: the speed and the depth of every submission of the pipeline were
\* passed together to one set_drilling_data call, also when such a call
\* runs on another thread while the pipeline runs.
C33_SubmittedPairWasSetTogether ==
    \A i \in 1..Len(submits) :
       <<submits[i].speed, submits[i].depth>> \in DrillingSamples

\* C34: the hole sequence that _get_holes has returned is a stable snapshot:
\* while the pipeline holds it for _find_nearest_hole, no step of another
\* thread (clear_cache, a refresh of the cache) changes its contents.
C34_ReturnedHolesAreStable ==
    [][(pl.pc = "find" /\ pl'.pc = "find") => pl'.holes = pl.holes]_vars

(***************************************************************************)
(* Claims about the statistics.                                            *)
(***************************************************************************)
GnssCountersOrdered ==
    /\ gnss_stats.holes_updated <= gnss_stats.locations_processed
    /\ gnss_stats.locations_processed <= gnss_stats.messages_received
    /\ gnss_stats.last_location # <<None, None>> <=> gnss_stats.locations_processed > 0

GnssCountersNeverDecrease ==
    /\ gnss_stats'.messages_received >= gnss_stats.messages_received
    /\ gnss_stats'.locations_processed >= gnss_stats.locations_processed
    /\ gnss_stats'.holes_updated >= gnss_stats.holes_updated

\* C35: in every state holes_updated <= locations_processed <=
\* messages_received and last_location is set exactly when
\* locations_processed > 0; no step decreases a counter.
C35_GnssCounters ==
    /\ []GnssCountersOrdered
    /\ [][GnssCountersNeverDecrease]_vars

\* two messages came, one of them with a position, and its hole was updated
C35_Witness ==
    /\ gnss_stats.messages_received = 2
    /\ gnss_stats.locations_processed = 1
    /\ gnss_stats.holes_updated = 1
    /\ gnss_stats.last_location # <<None, None>>

\* a flush of thread t that ends without having anything to send
FlushFindsNothing(t) ==
    \/ fl[t].pc = "begin" /\ fl'[t].pc # "begin" /\ Falsy(hole_id)
    \/ fl[t].pc = "queue" /\ fl'[t].pc # "queue" /\ data_queue = <<>>

DeliveryCountersStep ==
    /\ stats'.total_sent >= stats.total_sent
    /\ stats'.total_failed >= stats.total_failed
    /\ \A t \in Threads :
          /\ FlushCommits(t) =>
                \/ /\ stats'.total_sent = stats.total_sent + 1
                   /\ stats'.total_failed = stats.total_failed
                \/ /\ stats'.total_sent = stats.total_sent
                   /\ stats'.total_failed = stats.total_failed + 1
          /\ FlushFindsNothing(t) =>
                /\ stats' = stats
                /\ posts' = posts
                /\ fl'[t].pc = "done"
          /\ (fl[t].pc = "done" /\ fl[t].result = "nothing") => posts' = posts

DeliveryCountersMatch == stats.total_sent + stats.total_failed = Len(received)

\* C36: total_sent and total_failed never decrease; a flush that has issued
\* a remote call adds 1 to exactly one of them when the call completes; a
\* flush that finds no hole id or an empty queue issues no call and changes
\* neither; so total_sent + total_failed is the number of remote
\* submissions that have completed.
C36_DeliveryAccountingExact ==
    /\ []DeliveryCountersMatch
    /\ [][DeliveryCountersStep]_vars

(***************************************************************************)
(* Claims about a service that was never started.                          *)
(***************************************************************************)
\* Not running, no thread of the service alive, and no call of the caller
\* under way.
Unstarted ==
    /\ ~running
    /\ c_pc = "idle"
    /\ LiveWorkers = {}
    /\ \A t \in Threads : fl[t].pc = "off"

\* A step that leaves the unstarted service unstarted, submits nothing and
\* counts nothing.
StaysUnstarted ==
    /\ Unstarted'
    /\ send_thread' = send_thread
    /\ wk' = wk
    /\ posts' = posts
    /\ received' = received
    /\ stats' = stats
    /\ last_send_time' = last_send_time

\* A step of start() that creates the thread: a hole id is set.
StartsWithHoleId ==
    /\ ~Falsy(hole_id)
    /\ running'
    /\ send_thread' \in LiveWorkers'
    /\ UNCHANGED <<hole_id, data_queue, posts, received, stats>>

\* C37: start() without a hole id creates no thread and leaves running
\* false.  While the service is not running and has no thread, samples that
\* are added stay in the queue and are never submitted, set_hole_id starts
\* nothing, and stop() returns at once without a flush; the only step that
\* ends this is a start() made with a hole id set.
C37_NoDeliveryUntilStarted ==
    [][Unstarted => (StaysUnstarted \/ StartsWithHoleId)]_vars

\* start() was refused for the missing hole id; samples were added and the
\* hole id set afterwards, and stop() returned at once: nothing has been
\* submitted.
C37_Witness ==
    /\ Unstarted
    /\ WorkersCreated = 0
    /\ refused.start
    /\ refused.stop
    /\ ~Falsy(hole_id)
    /\ Len(data_queue) = MaxAdds
    /\ posts = <<>>

(***************************************************************************)
(* Claims about the two searches of hole_finder.                           *)
(***************************************************************************)
\* find_nearest_hole and get_holes_sorted_by_distance were both called with
\* the arguments hf_args, the second without a limit.
BothSearched ==
    /\ hf_result.called
    /\ hs_result.called
    /\ hs_result.limit = None

NearestIsFirstSorted ==
    BothSearched =>
        IF hs_result.list = <<>>
        THEN hf_result.found = NotFound
        ELSE /\ hf_result.found # NotFound
             /\ hf_result.found.hole = hs_result.list[1].hole
             /\ hf_result.found.distance = hs_result.list[1].distance

\* C38: for every position, hole list, maximum distance and use_3d setting
\* find_nearest_hole returns the hole and the _distance of the first element
\* of get_holes_sorted_by_distance called with the same arguments, and None
\* exactly when that list is empty, also when several holes are at the same
\* distance; and neither call changes the holes it was given.
C38_NearestIsFirstSorted ==
    /\ []NearestIsFirstSorted
    /\ [][hf_args' = hf_args]_vars

====
